---- MODULE Spec2Model ----
(***************************************************************************)
(* Model of the confession bot (src/main.py): the in-memory conversation   *)
(* state, the Supabase tables it reads and writes, the Telegram messages   *)
(* it sends, and one action per aiogram handler.                           *)
(***************************************************************************)
EXTENDS Integers, Sequences, FiniteSets, Bags, TLC

(***************************************************************************)
(* Bounds of the model.                                                    *)
(***************************************************************************)
MaxConfessions == 1
MaxComments == 3
MaxPosts == 2
MaxPageReq == 4

Users == {"u1", "u2"}
Authors == {"u1"}
(* "📝 Content:", the marker the review message puts before the text *)
Marker == "Content:"

(* a text is a sequence of tokens: words, line breaks ("nl"), the marker *)
Texts == {<<"a">>, <<"a", Marker, "b">>}

(* per_page in browse_cb *)
PerPage == 10

VARIABLES
    accepted_terms,      \* set of user ids
    user_state,          \* user id -> dict (mode / active_conf_id / report_*)
    user_reply_state,    \* user id -> reply flow entry
    profile_flow_state,  \* user id -> "" | "bio" | "nick"
    profiles,            \* table profiles: user id -> bio and nickname
    inflight,            \* handlers suspended at an await, to be resumed
    confessions,         \* table confessions
    comments,            \* table comments
    comment_seq,         \* last id handed out by the comments table
    votes,               \* table votes
    reports,             \* table reports
    channel,             \* posts of TARGET_CHANNEL_ID, index = message_id
    review_msgs,         \* messages of ADMIN_GROUP_ID about submissions
    report_msgs,         \* messages of ADMIN_GROUP_ID about reports
    outbox,              \* what the last handler sent or answered
    last                 \* the last event handled

vars == <<accepted_terms, user_state, user_reply_state, profile_flow_state,
          profiles, inflight,
          confessions, comments, comment_seq, votes, reports, channel,
          review_msgs, report_msgs, outbox, last>>

conv_vars == <<accepted_terms, user_state, user_reply_state, profile_flow_state>>

store_vars == <<confessions, comments, comment_seq, votes, reports>>

tg_vars == <<channel, review_msgs, report_msgs>>

(* touched only by the profile handlers and by the handlers run in steps *)
aux_vars == <<profiles, inflight>>

(***************************************************************************)
(* Conversation state: a user_state entry is a dict read with .get(); an   *)
(* absent key reads as None, written here as "" or 0.                      *)
(***************************************************************************)
NoState == [mode |-> "", active_conf_id |-> 0, report_c_id |-> 0, report_conf_id |-> 0]

NoReply == [on |-> FALSE, confession_id |-> 0, parent_comment_id |-> 0, page |-> 0]

(* a profiles row whose bio and nickname are None *)
NoProfile == [bio |-> "", nickname |-> ""]

ShareModes == {"share_experience", "share_thought", "share_confession"}

Reasons == {"Spam/Scam", "Other"}

(***************************************************************************)
(* Store helpers.                                                          *)
(***************************************************************************)
db_get_confession(conf_id) ==
    {r \in confessions : r.id = conf_id}

(* counts every comment row of the confession, replies included *)
db_count_comments(rows, confession_id) ==
    Cardinality({c \in rows : c.confession_id = confession_id})

(***************************************************************************)
(* The votes and reports tables are bags of rows: two rows holding the     *)
(* same values are two rows.                                               *)
(***************************************************************************)
RECURSIVE CountRows(_, _)
CountRows(table, rows) ==
    IF rows = {} THEN 0
    ELSE LET r == CHOOSE x \in rows : TRUE
         IN CopiesIn(r, table) + CountRows(table, rows \ {r})

DeleteRows(table, rows) ==
    [r \in BagToSet(table) \ rows |-> table[r]]

InsertRow(table, row) ==
    table (+) SetToBag({row})

VoteRows(user_id, comment_id) ==
    {v \in BagToSet(votes) : v.user_id = user_id /\ v.comment_id = comment_id}

VoteRow(user_id, comment_id, vote_value) ==
    [user_id |-> user_id, comment_id |-> comment_id, vote |-> vote_value]

(* upsert that ignores the (user_id, comment_id) key: always a new row *)
db_upsert_vote_insert_only(user_id, comment_id, vote_value) ==
    InsertRow(votes, VoteRow(user_id, comment_id, vote_value))

(* upsert on the votes table: the row of (user_id, comment_id) is           *)
(* overwritten when there is one, inserted otherwise                        *)
db_upsert_vote(user_id, comment_id, vote_value) ==
    InsertRow(DeleteRows(votes, VoteRows(user_id, comment_id)),
              VoteRow(user_id, comment_id, vote_value))

(* a delete that drops the user_id filter *)
db_delete_vote_any_user(user_id, comment_id) ==
    DeleteRows(votes, {v \in BagToSet(votes) : v.comment_id = comment_id})

db_delete_vote(user_id, comment_id) ==
    DeleteRows(votes, VoteRows(user_id, comment_id))

VoteCount(table, comment_id, value) ==
    CountRows(table, {v \in BagToSet(table) : v.comment_id = comment_id /\ v.vote = value})

db_get_vote_counts(table, comment_id, ok) ==
    IF ok THEN <<VoteCount(table, comment_id, 1), VoteCount(table, comment_id, -1)>>
    ELSE <<0, 0>>

Init ==
    /\ accepted_terms = {}
    /\ user_state = [u \in Users |-> NoState]
    /\ user_reply_state = [u \in Users |-> NoReply]
    /\ profile_flow_state = [u \in Users |-> ""]
    /\ profiles = [u \in Users |-> NoProfile]
    /\ inflight = <<>>
    /\ confessions = {}
    /\ comments = {}
    /\ comment_seq = 0
    /\ votes = EmptyBag
    /\ reports = EmptyBag
    /\ channel = <<>>
    /\ review_msgs = {}
    /\ report_msgs = {}
    /\ outbox = {}
    /\ last = [h |-> "init"]

(***************************************************************************)
(* A message the handler sends or a callback answer it gives: the chat it  *)
(* goes to, what it says, the id it is about, a number it shows, and       *)
(* whether the transport accepted it.                                      *)
(***************************************************************************)
Msg(to, kind, ref, n, ok) ==
    [to |-> to, kind |-> kind, ref |-> ref, n |-> n, ok |-> ok]

(***************************************************************************)
(* Commands and buttons that open a flow.                                  *)
(***************************************************************************)
(* a handler that takes a decline as a withdrawal of the consent *)
AcceptedAfter_decline_withdraws(uid, data) ==
    IF data = "accept_terms" THEN accepted_terms \cup {uid} ELSE accepted_terms \ {uid}

(* decline returns before accepted_terms.add *)
AcceptedAfter(uid, data) ==
    IF data = "accept_terms" THEN accepted_terms \cup {uid} ELSE accepted_terms

accept_terms_cb(uid, data) ==
    /\ accepted_terms' = AcceptedAfter(uid, data)
    /\ outbox' = {Msg(uid, IF data = "accept_terms" THEN "what_sharing" ELSE "declined", 0, 0, TRUE)}
    /\ last' = [h |-> "accept_terms_cb", uid |-> uid, data |-> data]
    /\ UNCHANGED <<user_state, user_reply_state, profile_flow_state, aux_vars, store_vars, tg_vars>>

choose_type_cb(uid, data) ==
    /\ user_state' = [user_state EXCEPT ![uid] = [NoState EXCEPT !.mode = data]]
    /\ outbox' = {Msg(uid, "send_text_now", 0, 0, TRUE)}
    /\ last' = [h |-> "choose_type_cb", uid |-> uid, data |-> data]
    /\ UNCHANGED <<accepted_terms, user_reply_state, profile_flow_state, aux_vars, store_vars, tg_vars>>

cmd_share_confession(uid) ==
    /\ user_state' = [user_state EXCEPT ![uid] = [NoState EXCEPT !.mode = "share_confession"]]
    /\ outbox' = {Msg(uid, "send_text_now", 0, 0, TRUE)}
    /\ last' = [h |-> "cmd_share_confession", uid |-> uid]
    /\ UNCHANGED <<accepted_terms, user_reply_state, profile_flow_state, aux_vars, store_vars, tg_vars>>

add_comment_cb(uid, conf_id) ==
    /\ user_state' = [user_state EXCEPT ![uid] = [NoState EXCEPT !.active_conf_id = conf_id]]
    /\ outbox' = {Msg(uid, "type_comment", conf_id, 0, TRUE)}
    /\ last' = [h |-> "add_comment_cb", uid |-> uid, conf_id |-> conf_id]
    /\ UNCHANGED <<accepted_terms, user_reply_state, profile_flow_state, aux_vars, store_vars, tg_vars>>

reply_cb(uid, c_id, conf_id, page) ==
    /\ user_reply_state' = [user_reply_state EXCEPT ![uid] =
           [on |-> TRUE, confession_id |-> conf_id, parent_comment_id |-> c_id, page |-> page]]
    /\ outbox' = {Msg(uid, "type_reply", c_id, 0, TRUE)}
    /\ last' = [h |-> "reply_cb", uid |-> uid, c_id |-> c_id, conf_id |-> conf_id]
    /\ UNCHANGED <<accepted_terms, user_state, profile_flow_state, aux_vars, store_vars, tg_vars>>

(* a cancel that empties the three dicts *)
menu_cancel_everyone(uid) ==
    /\ user_state' = [u \in Users |-> NoState]
    /\ user_reply_state' = [u \in Users |-> NoReply]
    /\ profile_flow_state' = [u \in Users |-> ""]
    /\ outbox' = {Msg(uid, "cancelled", 0, 0, TRUE)}

(* the dicts after the three pops of cmd_cancel *)
menu_cancel(uid) ==
    /\ user_state' = [user_state EXCEPT ![uid] = NoState]
    /\ user_reply_state' = [user_reply_state EXCEPT ![uid] = NoReply]
    /\ profile_flow_state' = [profile_flow_state EXCEPT ![uid] = ""]
    /\ outbox' = {Msg(uid, "cancelled", 0, 0, TRUE)}

(* the inline menu: cmd_profile, cmd_rules, cmd_cancel, share_confession *)
menu_inline_commands(uid, data) ==
    /\ last' = [h |-> "menu_inline_commands", uid |-> uid, data |-> data]
    /\ CASE data = "cmd_cancel" -> menu_cancel(uid)
         [] data = "share_confession" ->
               /\ user_state' = [user_state EXCEPT ![uid] =
                                    [NoState EXCEPT !.mode = "share_confession"]]
               /\ outbox' = {Msg(uid, "send_text_now", 0, 0, TRUE)}
               /\ UNCHANGED <<user_reply_state, profile_flow_state>>
         [] OTHER ->
               /\ outbox' = {Msg(uid, data, 0, 0, TRUE)}
               /\ UNCHANGED <<user_state, user_reply_state, profile_flow_state>>
    /\ UNCHANGED <<accepted_terms, aux_vars, store_vars, tg_vars>>

(* the Cancel button under the reply prompt *)
cancel_reply_cb(uid) ==
    /\ user_reply_state' = [user_reply_state EXCEPT ![uid] = NoReply]
    /\ outbox' = {Msg(uid, "reply_cancelled", 0, 0, TRUE)}
    /\ last' = [h |-> "cancel_reply_cb", uid |-> uid]
    /\ UNCHANGED <<accepted_terms, user_state, profile_flow_state, aux_vars, store_vars, tg_vars>>

(* callback_data "noop": the Cancel button under the report reasons *)
noop_cb(uid) ==
    /\ outbox' = {Msg(uid, "answer", 0, 0, TRUE)}
    /\ last' = [h |-> "noop_cb", uid |-> uid]
    /\ UNCHANGED <<conv_vars, aux_vars, store_vars, tg_vars>>

(* prof_edit_bio and prof_edit_nick *)
prof_edit_field(uid, field) ==
    /\ profile_flow_state' = [profile_flow_state EXCEPT ![uid] = field]
    /\ outbox' = {Msg(uid, "send_new_" \o field, 0, 0, TRUE),
                  Msg(uid, "waiting_for_" \o field, 0, 0, TRUE)}
    /\ last' = [h |-> "prof_edit_" \o field, uid |-> uid]
    /\ UNCHANGED <<accepted_terms, user_state, user_reply_state, aux_vars, store_vars, tg_vars>>

(* db_set_profile_bio / db_set_profile_nickname: an upsert whose failure   *)
(* is swallowed                                                            *)
db_set_profile(uid, field, value, db_ok) ==
    IF db_ok THEN [profiles EXCEPT ![uid][field] = value] ELSE profiles

(* what handle_profile_inputs reads of a text: the text itself (compared   *)
(* with "remove" and "default"), its length, whether it is alphanumeric    *)
ProfileInputs ==
    {[txt |-> "remove", len |-> 6, alnum |-> TRUE],
     [txt |-> "default", len |-> 7, alnum |-> TRUE],
     [txt |-> "a", len |-> 1, alnum |-> TRUE],
     [txt |-> "a!", len |-> 2, alnum |-> FALSE],
     [txt |-> "long", len |-> 33, alnum |-> TRUE],
     [txt |-> "longer", len |-> 251, alnum |-> FALSE]}

(* <<value to store, answer>>, or no store call when the text is refused *)
ProfileDecision(awaiting, in) ==
    IF awaiting = "bio"
    THEN IF in.txt = "remove" THEN [store |-> TRUE, value |-> "", say |-> "bio_cleared"]
         ELSE IF in.len > 250 THEN [store |-> FALSE, value |-> "", say |-> "bio_too_long"]
         ELSE [store |-> TRUE, value |-> in.txt, say |-> "bio_updated"]
    ELSE IF in.txt = "default" THEN [store |-> TRUE, value |-> "", say |-> "nick_reset"]
         ELSE IF in.len > 32 THEN [store |-> FALSE, value |-> "", say |-> "nick_too_long"]
         ELSE IF ~in.alnum THEN [store |-> FALSE, value |-> "", say |-> "nick_bad_chars"]
         ELSE [store |-> TRUE, value |-> in.txt, say |-> "nick_updated"]

handle_profile_inputs(uid, in, db_ok) ==
    LET awaiting == profile_flow_state[uid]
        d == ProfileDecision(awaiting, in)
        field == IF awaiting = "bio" THEN "bio" ELSE "nickname"
    IN
    /\ awaiting # ""
    /\ last' = [h |-> "handle_profile_inputs", uid |-> uid, field |-> field, stored |-> d.store]
    /\ IF d.store
       THEN /\ profiles' = db_set_profile(uid, field, d.value, db_ok)
            /\ profile_flow_state' = [profile_flow_state EXCEPT ![uid] = ""]
            /\ outbox' = {Msg(uid, d.say, 0, 0, TRUE), Msg(uid, "profile_page", 0, 0, TRUE)}
       ELSE /\ UNCHANGED <<profiles, profile_flow_state>>
            /\ outbox' = {Msg(uid, d.say, 0, 0, TRUE)}
    /\ UNCHANGED <<accepted_terms, user_state, user_reply_state, inflight, store_vars, tg_vars>>

(***************************************************************************)
(* Free text.  aiogram tries the message handlers in registration order:   *)
(* handle_profile_inputs (in a profile flow), handle_reply (in a reply     *)
(* flow), then the catch-all handle_message.                               *)
(***************************************************************************)
NewComment(confession_id, user_id, text, parent_id) ==
    [id |-> comment_seq + 1, confession_id |-> confession_id, user_id |-> user_id,
     text |-> text, parent_comment_id |-> parent_id]

handle_reply(uid, text, db_ok) ==
    /\ profile_flow_state[uid] = ""
    /\ user_reply_state[uid].on
    /\ comment_seq < MaxComments
    /\ user_reply_state' = [user_reply_state EXCEPT ![uid] = NoReply]
    /\ LET state == user_reply_state[uid] IN
       /\ IF db_ok
          THEN /\ comments' = comments \cup
                     {NewComment(state.confession_id, uid, text, state.parent_comment_id)}
               /\ comment_seq' = comment_seq + 1
               /\ outbox' = {Msg(uid, "reply_added", state.confession_id, 0, TRUE)}
          ELSE /\ UNCHANGED <<comments, comment_seq>>
               /\ outbox' = {Msg(uid, "reply_failed", state.confession_id, 0, TRUE)}
       /\ last' = [h |-> "handle_reply", uid |-> uid, conf_id |-> state.confession_id,
                   db_ok |-> db_ok, tg_ok |-> TRUE, done |-> TRUE]
    /\ UNCHANGED <<accepted_terms, user_state, profile_flow_state, aux_vars,
                   confessions, votes, reports, tg_vars>>

(* the channel after edit_message_reply_markup(TARGET_CHANNEL_ID, msg_id)  *)
(* with the markup build_channel_markup(_, conf_id, count)                 *)
EditChannelMarkup(msg_id, count) ==
    IF msg_id \in DOMAIN channel
    THEN [channel EXCEPT ![msg_id].count = count]
    ELSE channel

(* "Update channel button count" in handle_message and                     *)
(* admin_delete_comment_cb: the count is db_count_comments of the          *)
(* confession, the edit is skipped without a channel_msg_id and swallowed  *)
(* when the transport fails                                                *)

(* a synchronisation that finds the channel post by its confession        *)
SyncCounter_by_post(conf_id, new_count, tg_ok) ==
    IF tg_ok
    THEN [i \in DOMAIN channel |->
             IF channel[i].conf_id = conf_id
             THEN [channel[i] EXCEPT !.count = new_count]
             ELSE channel[i]]
    ELSE channel

SyncCounter(conf_id, new_count, tg_ok) ==
    LET conf == db_get_confession(conf_id) IN
    IF conf # {} /\ (CHOOSE r \in conf : TRUE).channel_msg_id # 0 /\ tg_ok
    THEN EditChannelMarkup((CHOOSE r \in conf : TRUE).channel_msg_id, new_count)
    ELSE channel

(* a handler that answers and leaves the entry where it is *)
PopAfterAnswer_never(uid, ans_ok) ==
    user_state

(* user_state.pop(uid, None) comes after the answer to the user: when the  *)
(* answer is not accepted by the transport (_safe_reply_or_send raises out *)
(* of its fallback) the handler ends there and the entry stays             *)
PopAfterAnswer(uid, ans_ok) ==
    IF ans_ok THEN [user_state EXCEPT ![uid] = NoState] ELSE user_state

handle_message_comment(uid, text, db_ok, tg_ok, ans_ok) ==
    LET conf_id == user_state[uid].active_conf_id IN
    /\ comment_seq < MaxComments
    /\ user_state' = PopAfterAnswer(uid, ans_ok)
    /\ last' = [h |-> "handle_message", uid |-> uid, branch |-> "comment",
                conf_id |-> conf_id, db_ok |-> db_ok, tg_ok |-> tg_ok, done |-> ans_ok]
    /\ IF db_ok
       THEN /\ comments' = comments \cup {NewComment(conf_id, uid, text, 0)}
            /\ comment_seq' = comment_seq + 1
            /\ channel' = SyncCounter(conf_id, db_count_comments(comments', conf_id), tg_ok)
            /\ outbox' = {Msg(uid, "comment_live", conf_id, 0, ans_ok)}
       ELSE /\ UNCHANGED <<comments, comment_seq, channel>>
            /\ outbox' = {Msg(uid, "comment_failed", conf_id, 0, ans_ok)}
    /\ UNCHANGED <<accepted_terms, user_reply_state, profile_flow_state, aux_vars,
                   confessions, votes, reports, review_msgs, report_msgs>>

(* review_text of handle_message: header lines, the marker, a line break,  *)
(* the text, two line breaks                                               *)
ReviewText(conf_id, text) ==
    <<"Review New Confession", Marker, "nl">> \o text \o <<"nl", "nl">>

(* a new row that starts out approved *)
NewConfession_approved(conf_id, uid, text) ==
    [id |-> conf_id, user_id |-> uid, text |-> text,
     is_approved |-> TRUE, channel_msg_id |-> 0]

(* the payload of db_add_confession *)
NewConfession(conf_id, uid, text) ==
    [id |-> conf_id, user_id |-> uid, text |-> text,
     is_approved |-> FALSE, channel_msg_id |-> 0]

handle_message_confession(uid, text, db_ok, tg_ok, ans_ok) ==
    LET conf_id == Cardinality(confessions) + 1 IN
    /\ Cardinality(confessions) < MaxConfessions
    /\ user_state' = PopAfterAnswer(uid, ans_ok)
    /\ last' = [h |-> "handle_message", uid |-> uid, branch |-> "confession",
                conf_id |-> conf_id, db_ok |-> db_ok, tg_ok |-> tg_ok, done |-> ans_ok]
    /\ IF db_ok
       THEN /\ confessions' = confessions \cup {NewConfession(conf_id, uid, text)}
            /\ IF tg_ok
               THEN /\ review_msgs' = review_msgs \cup
                          {[conf_id |-> conf_id, shown |-> "review",
                            content |-> ReviewText(conf_id, text), kb |-> TRUE]}
                    /\ outbox' = {Msg("admin", "review", conf_id, 0, TRUE),
                                  Msg(uid, "sent_for_review", conf_id, 0, ans_ok)}
               ELSE /\ UNCHANGED review_msgs
                    /\ outbox' = {Msg("admin", "review", conf_id, 0, FALSE),
                                  Msg(uid, "forward_failed", conf_id, 0, ans_ok)}
       ELSE /\ UNCHANGED <<confessions, review_msgs>>
            /\ outbox' = {Msg(uid, "confession_failed", 0, 0, ans_ok)}
    /\ UNCHANGED <<accepted_terms, user_reply_state, profile_flow_state, aux_vars,
                   comments, comment_seq, votes, reports, channel, report_msgs>>

(* an idle text taken as the start of a submission *)
handle_message_idle_enters_share(uid) ==
    /\ user_state' = [user_state EXCEPT ![uid] = [NoState EXCEPT !.mode = "share_confession"]]
    /\ outbox' = {Msg(uid, "send_text_now", 0, 0, TRUE)}
    /\ last' = [h |-> "handle_message", uid |-> uid, branch |-> "idle",
                conf_id |-> 0, db_ok |-> TRUE, tg_ok |-> TRUE, done |-> TRUE]
    /\ UNCHANGED <<accepted_terms, user_reply_state, profile_flow_state, aux_vars,
                   store_vars, tg_vars>>

handle_message_idle(uid) ==
    /\ outbox' = {Msg(uid, "what_to_do", 0, 0, TRUE)}
    /\ last' = [h |-> "handle_message", uid |-> uid, branch |-> "idle",
                conf_id |-> 0, db_ok |-> TRUE, tg_ok |-> TRUE, done |-> TRUE]
    /\ UNCHANGED <<conv_vars, aux_vars, store_vars, tg_vars>>

handle_message(uid, text, db_ok, tg_ok, ans_ok) ==
    /\ profile_flow_state[uid] = ""
    /\ ~user_reply_state[uid].on
    /\ IF user_state[uid].active_conf_id # 0
       THEN handle_message_comment(uid, text, db_ok, tg_ok, ans_ok)
       ELSE IF user_state[uid].mode \in ShareModes
            THEN handle_message_confession(uid, text, db_ok, tg_ok, ans_ok)
            ELSE handle_message_idle(uid)

(***************************************************************************)
(* Moderation: admin_approve_<id> / admin_reject_<id> pressed on the       *)
(* review message of a submission.                                         *)
(***************************************************************************)
db_set_confession_published(conf_id, channel_msg_id, db_res) ==
    {IF r.id # conf_id THEN r
     ELSE IF db_res = "ok"
          THEN [r EXCEPT !.is_approved = TRUE, !.channel_msg_id = channel_msg_id]
          ELSE IF db_res = "fallback"
               THEN [r EXCEPT !.channel_msg_id = channel_msg_id]
               ELSE r : r \in confessions}

db_set_confession_rejected(conf_id, db_ok) ==
    {IF r.id = conf_id /\ db_ok THEN [r EXCEPT !.is_approved = FALSE] ELSE r : r \in confessions}

HasMarker(s) == \E i \in 1..Len(s) : s[i] = Marker

FirstMarker(s) == CHOOSE i \in 1..Len(s) : s[i] = Marker /\ \A j \in 1..(i - 1) : s[j] # Marker

(* current_text.split("📝 Content:")[1]: what stands between the first     *)
(* marker and the next one, or the end                                     *)
SplitSecond(s) ==
    LET rest == SubSeq(s, FirstMarker(s) + 1, Len(s))
    IN IF HasMarker(rest) THEN SubSeq(rest, 1, FirstMarker(rest) - 1) ELSE rest

(* str.strip() *)
RECURSIVE Strip(_)
Strip(s) ==
    IF s = <<>> THEN s
    ELSE IF Head(s) = "nl" THEN Strip(Tail(s))
    ELSE IF s[Len(s)] = "nl" THEN Strip(SubSeq(s, 1, Len(s) - 1))
    ELSE s

(* final_text: parsed out of the text of the review message when it has    *)
(* the marker, else the stored text                                        *)
FinalText(m) ==
    IF HasMarker(m.content) THEN Strip(SplitSecond(m.content))
    ELSE IF db_get_confession(m.conf_id) # {}
         THEN (CHOOSE r \in db_get_confession(m.conf_id) : TRUE).text
         ELSE <<>>

EditReviewMsg(m, shown, content, edit_ok) ==
    IF edit_ok
    THEN (review_msgs \ {m}) \cup {[conf_id |-> m.conf_id, shown |-> shown,
                                     content |-> content, kb |-> FALSE]}
    ELSE review_msgs

admin_review_reject(m, db_ok, edit_ok) ==
    /\ confessions' = db_set_confession_rejected(m.conf_id, db_ok)
    /\ review_msgs' = EditReviewMsg(m, "rejected", <<"Rejected. Original:">> \o FinalText(m), edit_ok)
    /\ outbox' = {Msg("admin", "rejected", m.conf_id, 0, edit_ok)}
    /\ last' = [h |-> "admin_review_cb", action |-> "reject", conf_id |-> m.conf_id,
                sent |-> FALSE, db_res |-> IF db_ok THEN "ok" ELSE "fail"]
    /\ UNCHANGED channel

(* persist-then-send: the row is written whether or not the post went out *)
ConfessionsAfterApprove_persist_first(m, send_ok, db_res) ==
    db_set_confession_published(m.conf_id, Len(channel) + 1, db_res)

(* db_set_confession_published runs only after send_message returned the  *)
(* post; a failed send raises past it                                      *)
ConfessionsAfterApprove(m, send_ok, db_res) ==
    IF send_ok
    THEN db_set_confession_published(m.conf_id, Len(channel) + 1, db_res)
    ELSE confessions

admin_review_approve(m, send_ok, db_res, edit_ok, notice_ok) ==
    /\ Len(channel) < MaxPosts
    /\ last' = [h |-> "admin_review_cb", action |-> "approve", conf_id |-> m.conf_id,
                sent |-> send_ok, db_res |-> IF send_ok THEN db_res ELSE "none"]
    /\ confessions' = ConfessionsAfterApprove(m, send_ok, db_res)
    /\ IF send_ok
       THEN /\ channel' = Append(channel,
                     [conf_id |-> m.conf_id, text |-> FinalText(m),
                      count |-> db_count_comments(comments, m.conf_id)])
            /\ review_msgs' = EditReviewMsg(m, "published", <<"Published.">>, edit_ok)
            /\ outbox' = {Msg("channel", "post", m.conf_id, Len(channel) + 1, TRUE),
                          Msg("admin", "published", m.conf_id, 0, edit_ok)}
       ELSE /\ UNCHANGED <<channel, review_msgs>>
            /\ outbox' = {Msg("channel", "post", m.conf_id, 0, FALSE),
                          Msg("admin", "publish_failed", m.conf_id, 0, notice_ok)}

admin_review_cb(conf_id, action, send_ok, db_res, edit_ok, notice_ok) ==
    /\ \E m \in review_msgs :
          /\ m.conf_id = conf_id
          /\ m.kb
          /\ IF action = "reject"
             THEN admin_review_reject(m, db_res = "ok", edit_ok)
             ELSE admin_review_approve(m, send_ok, db_res, edit_ok, notice_ok)
    /\ UNCHANGED <<conv_vars, aux_vars, comments, comment_seq, votes, reports, report_msgs>>

(***************************************************************************)
(* Votes: vote_<comment_id>_<up|dw>_<conf_id>_<page>.                      *)
(***************************************************************************)
Want(vtype) == IF vtype = "up" THEN 1 ELSE -1

(* a vote handler that treats any existing vote as a toggle-off *)
VoteWrite_any_existing_toggles(user_id, c_id, want, db_ok) ==
    IF ~db_ok THEN votes
    ELSE IF VoteRows(user_id, c_id) # {}
         THEN db_delete_vote(user_id, c_id)
         ELSE db_upsert_vote(user_id, c_id, want)

(* the votes table after the try block of vote_cb; any store error in it   *)
(* is swallowed and leaves the table as it was                             *)
VoteWrite(user_id, c_id, want, db_ok) ==
    IF ~db_ok THEN votes
    ELSE IF VoteRows(user_id, c_id) # {}
         THEN IF (CHOOSE v \in VoteRows(user_id, c_id) : TRUE).vote = want
              THEN db_delete_vote(user_id, c_id)
              ELSE db_upsert_vote(user_id, c_id, want)
         ELSE db_upsert_vote(user_id, c_id, want)

vote_cb(uid, c_id, vtype, db_ok, cnt_ok) ==
    /\ c_id \in 1..comment_seq
    /\ votes' = VoteWrite(uid, c_id, Want(vtype), db_ok)
    /\ outbox' = {Msg(uid, "likes", c_id, db_get_vote_counts(votes', c_id, cnt_ok)[1], TRUE),
                  Msg(uid, "dislikes", c_id, db_get_vote_counts(votes', c_id, cnt_ok)[2], TRUE),
                  Msg(uid, "vote_recorded", c_id, 0, TRUE)}
    /\ last' = [h |-> "vote_cb", uid |-> uid, c_id |-> c_id, want |-> Want(vtype),
                db_ok |-> db_ok, had |-> VoteRows(uid, c_id) # {},
                before |-> db_get_vote_counts(votes, c_id, TRUE)]
    /\ UNCHANGED <<conv_vars, aux_vars, confessions, comments, comment_seq, reports, tg_vars>>

(***************************************************************************)
(* Reports: report_<comment_id>_<conf_id>, then reason_<reason>.           *)
(***************************************************************************)
report_cb(uid, c_id, conf_id) ==
    /\ user_state' = [user_state EXCEPT ![uid] =
           [NoState EXCEPT !.report_c_id = c_id, !.report_conf_id = conf_id]]
    /\ outbox' = {Msg(uid, "what_is_wrong", c_id, 0, TRUE)}
    /\ last' = [h |-> "report_cb", uid |-> uid, c_id |-> c_id, conf_id |-> conf_id]
    /\ UNCHANGED <<accepted_terms, user_reply_state, profile_flow_state, aux_vars, store_vars, tg_vars>>

ReportRows(comment_id, user_id) ==
    {r \in BagToSet(reports) : r.comment_id = comment_id /\ r.user_id = user_id}

(* an existence check that looks only at reports still open *)
ReportExistsPendingOnly(comment_id, user_id) ==
    \E r \in ReportRows(comment_id, user_id) : r.reason \in Reasons

(* "existing.data" in db_add_report: any row of the pair, whatever it holds *)
ReportExists(comment_id, user_id) ==
    ReportRows(comment_id, user_id) # {}

(* db_add_report: <<the table afterwards, the value returned>> *)
db_add_report(comment_id, user_id, reason, db_ok) ==
    IF ~db_ok \/ ReportExists(comment_id, user_id)
    THEN <<reports, FALSE>>
    ELSE <<InsertRow(reports, [comment_id |-> comment_id, user_id |-> user_id,
                               reason |-> reason]), TRUE>>

reason_cb(uid, reason, db_ok, tg_ok) ==
    LET st == user_state[uid]
        c_id == st.report_c_id
        conf_id == st.report_conf_id
        res == db_add_report(c_id, uid, reason, db_ok)
    IN
    /\ last' = [h |-> "reason_cb", uid |-> uid, c_id |-> c_id, db_ok |-> db_ok,
                had |-> ReportExists(c_id, uid)]
    /\ IF c_id = 0
       THEN /\ outbox' = {Msg(uid, "comment_id_lost", 0, 0, TRUE)}
            /\ UNCHANGED <<user_state, reports, report_msgs>>
       ELSE IF ~res[2]
            THEN /\ reports' = res[1]
                 /\ outbox' = {Msg(uid, "already_reported", c_id, 0, TRUE)}
                 /\ UNCHANGED <<user_state, report_msgs>>
            ELSE /\ reports' = res[1]
                 /\ report_msgs' = IF tg_ok
                       THEN report_msgs \cup {[by |-> uid, c_id |-> c_id,
                                               conf_id |-> conf_id, kb |-> TRUE]}
                       ELSE report_msgs
                 /\ outbox' = {Msg("admin", "new_report", c_id, 0, tg_ok),
                               Msg(uid, "report_submitted", c_id, 0, TRUE)}
                 /\ user_state' = [user_state EXCEPT ![uid] = NoState]
    /\ UNCHANGED <<accepted_terms, user_reply_state, profile_flow_state, aux_vars,
                   confessions, comments, comment_seq, votes, channel, review_msgs>>

(***************************************************************************)
(* Moderator actions on a report message.                                  *)
(***************************************************************************)
(* a delete that leaves the replies in place *)
DeleteCommentRows_no_cascade(comment_id, del_res) ==
    IF del_res = "fail" THEN comments
    ELSE {c \in comments : c.id # comment_id}

(* db_delete_comment: three try blocks, each swallowing its own failure *)
DeleteCommentRows(comment_id, del_res) ==
    IF del_res = "fail" THEN comments
    ELSE IF del_res = "comment_only"
         THEN {c \in comments : c.id # comment_id}
         ELSE {c \in comments : c.id # comment_id /\ c.parent_comment_id # comment_id}

DeleteVoteRows(comment_id, ok) ==
    IF ok THEN DeleteRows(votes, {v \in BagToSet(votes) : v.comment_id = comment_id})
    ELSE votes

(* update({"reason": value}).eq("comment_id", comment_id) on reports *)
SetReportReason(comment_id, value) ==
    LET hit == {r \in BagToSet(reports) : r.comment_id = comment_id}
        users == {r.user_id : r \in hit}
        kept == DeleteRows(reports, hit)
    IN kept (+) [r \in {[comment_id |-> comment_id, user_id |-> u, reason |-> value] : u \in users}
                   |-> CountRows(reports, {x \in hit : x.user_id = r.user_id})]

(* a delete that leaves the reports as they are *)
ResolveReports_untouched(comment_id, ok) == reports

ResolveReports(comment_id, ok) ==
    IF ok THEN SetReportReason(comment_id, "resolved") ELSE reports

EditReportMsg(m, edit_ok) ==
    IF edit_ok THEN (report_msgs \ {m}) \cup {[m EXCEPT !.kb = FALSE]} ELSE report_msgs

admin_delete_comment_cb(m, del_res, votes_ok, reports_ok, tg_ok, edit_ok) ==
    /\ m \in report_msgs
    /\ m.kb
    /\ comments' = DeleteCommentRows(m.c_id, del_res)
    /\ votes' = DeleteVoteRows(m.c_id, votes_ok)
    /\ reports' = ResolveReports(m.c_id, reports_ok)
    /\ channel' = SyncCounter(m.conf_id, db_count_comments(comments', m.conf_id), tg_ok)
    /\ report_msgs' = EditReportMsg(m, edit_ok)
    /\ outbox' = {Msg("admin", "comment_deleted", m.c_id, 0, edit_ok)}
    /\ last' = [h |-> "admin_delete_comment_cb", c_id |-> m.c_id, conf_id |-> m.conf_id,
                tg_ok |-> tg_ok, store_ok |-> (del_res = "ok" /\ votes_ok /\ reports_ok)]
    /\ UNCHANGED <<conv_vars, aux_vars, confessions, comment_seq, review_msgs>>

admin_dismiss_report_cb(m, db_ok, edit_ok) ==
    /\ m \in report_msgs
    /\ m.kb
    /\ reports' = IF db_ok THEN SetReportReason(m.c_id, "dismissed") ELSE reports
    /\ report_msgs' = EditReportMsg(m, edit_ok)
    /\ outbox' = {Msg("admin", "reports_dismissed", m.c_id, 0, edit_ok)}
    /\ last' = [h |-> "admin_dismiss_report_cb", c_id |-> m.c_id, db_ok |-> db_ok]
    /\ UNCHANGED <<conv_vars, aux_vars, confessions, comments, comment_seq, votes, channel, review_msgs>>

(***************************************************************************)
(* Listing: browse_<conf_id>_<page>.                                       *)
(***************************************************************************)
Max(a, b) == IF a >= b THEN a ELSE b

Min(a, b) == IF a <= b THEN a ELSE b

(* math.ceil(total / per_page) *)
CeilDiv(a, b) == (a + b - 1) \div b

(* .order("id", desc=False) *)
RECURSIVE OrderById(_)
OrderById(rows) ==
    IF rows = {} THEN <<>>
    ELSE LET first == CHOOSE x \in rows : \A y \in rows : x.id <= y.id
         IN <<first>> \o OrderById(rows \ {first})

db_get_comments(rows, confession_id) ==
    OrderById({c \in rows : c.confession_id = confession_id})

IsTopLevel(c) == c.parent_comment_id = 0

(* [c for c in comments if not c.get("parent_comment_id")] *)
top_level(cs) == SelectSeq(cs, IsTopLevel)

(* replies_map.get(pid, []) *)
replies_map(cs, pid) ==
    SelectSeq(cs, LAMBDA c : c.parent_comment_id # 0 /\ c.parent_comment_id = pid)

total_pages(total) == Max(1, CeilDiv(total, PerPage))

(* a clamp from below only *)
ClampPage_lower_only(page, pages) == Max(1, page)

(* max(1, min(page, total_pages)) *)
ClampPage(page, pages) == Max(1, Min(page, pages))

(* a slice that starts one element late *)
Chunk_off_by_one(top, page) ==
    SubSeq(top, (page - 1) * PerPage + 2, Min(page * PerPage + 1, Len(top)))

(* top_level[start:start+per_page] with start = (page-1)*per_page >= 0 *)
Chunk(top, page) ==
    SubSeq(top, (page - 1) * PerPage + 1, Min(page * PerPage, Len(top)))

(* the comments in the order browse_cb sends them: each comment of the     *)
(* chunk, then the replies filed under its id                              *)
RECURSIVE Shown(_, _)
Shown(chunk, cs) ==
    IF chunk = <<>> THEN <<>>
    ELSE <<Head(chunk)>> \o replies_map(cs, Head(chunk).id) \o Shown(Tail(chunk), cs)

(* buttons with Next on every page *)
pagination_kb_always_next(uid, page, pages) ==
    {Msg(uid, "page_of", page, pages, TRUE), Msg(uid, "next", page + 1, 0, TRUE)}
      \cup (IF page > 1 THEN {Msg(uid, "prev", page - 1, 0, TRUE)} ELSE {})

(* the buttons of the navigation row *)
pagination_kb(uid, page, pages) ==
    {Msg(uid, "page_of", page, pages, TRUE)}
      \cup (IF page > 1 THEN {Msg(uid, "prev", page - 1, 0, TRUE)} ELSE {})
      \cup (IF page < pages THEN {Msg(uid, "next", page + 1, 0, TRUE)} ELSE {})

(* what browse_cb sends for a requested page: every message carries its    *)
(* position in the order of sending                                        *)
BrowseOutput(uid, rows, conf_id, page_req) ==
    LET cs == db_get_comments(rows, conf_id)
        top == top_level(cs)
        total == Len(top)
        pages == total_pages(total)
        page == ClampPage(page_req, pages)
        chunk == Chunk(top, page)
        shown == Shown(chunk, cs)
    IN IF chunk = <<>>
       THEN {Msg(uid, "no_comments", conf_id, 0, TRUE)}
       ELSE {Msg(uid, IF IsTopLevel(shown[i]) THEN "comment" ELSE "reply",
                 shown[i].id, i, TRUE) : i \in 1..Len(shown)}
              \cup {Msg(uid, "displaying_page", page, total, TRUE)}
              \cup pagination_kb(uid, page, pages)

browse_cb(uid, conf_id, page) ==
    /\ outbox' = BrowseOutput(uid, comments, conf_id, page)
    /\ last' = [h |-> "browse_cb", uid |-> uid, conf_id |-> conf_id, page |-> page]
    /\ UNCHANGED <<conv_vars, aux_vars, store_vars, tg_vars>>

(***************************************************************************)
(* Payloads.  A string is a sequence of characters; str(), split(),        *)
(* startswith() and int() are computed on the characters.                  *)
(***************************************************************************)
Digits == <<"0", "1", "2", "3", "4", "5", "6", "7", "8", "9">>

IsDigit(ch) == \E d \in 1..10 : Digits[d] = ch

DigitVal(ch) == (CHOOSE d \in 1..10 : Digits[d] = ch) - 1

RECURSIVE NatToStr(_)
NatToStr(n) ==
    IF n < 10 THEN <<Digits[n + 1]>>
    ELSE NatToStr(n \div 10) \o <<Digits[(n % 10) + 1]>>

(* str(n), as the f-strings of the keyboards format an int *)
IntToStr(n) ==
    IF n < 0 THEN <<"-">> \o NatToStr(0 - n) ELSE NatToStr(n)

RECURSIVE DigitsToNat(_)
DigitsToNat(s) ==
    IF s = <<>> THEN 0
    ELSE 10 * DigitsToNat(SubSeq(s, 1, Len(s) - 1)) + DigitVal(s[Len(s)])

(* the digits of an int literal after its sign *)
LiteralBody(s) ==
    IF s # <<>> /\ s[1] \in {"-", "+"} THEN Tail(s) ELSE s

(* int(s) returns: an optional sign, then digits, single underscores       *)
(* allowed between digits; anything else raises ValueError                 *)
IsIntLiteral(s) ==
    LET b == LiteralBody(s) IN
    /\ b # <<>>
    /\ \A i \in 1..Len(b) :
          \/ IsDigit(b[i])
          \/ /\ b[i] = "_" /\ 1 < i /\ i < Len(b)
             /\ IsDigit(b[i - 1]) /\ IsDigit(b[i + 1])

ParseInt(s) ==
    LET b == SelectSeq(LiteralBody(s), IsDigit) IN
    IF s[1] = "-" THEN 0 - DigitsToNat(b) ELSE DigitsToNat(b)

StartsWith(s, p) ==
    Len(s) >= Len(p) /\ SubSeq(s, 1, Len(p)) = p

(* index of the first sep in s, 0 when there is none *)
Find(s, sep) ==
    IF \E i \in 1..Len(s) : s[i] = sep
    THEN CHOOSE i \in 1..Len(s) : s[i] = sep /\ \A j \in 1..(i - 1) : s[j] # sep
    ELSE 0

(* s.split(sep, 1) *)
SplitOnce(s, sep) ==
    LET i == Find(s, sep) IN
    IF i = 0 THEN <<s>> ELSE <<SubSeq(s, 1, i - 1), SubSeq(s, i + 1, Len(s))>>

(* s.split(sep) *)
RECURSIVE Split(_, _)
Split(s, sep) ==
    LET i == Find(s, sep) IN
    IF i = 0 THEN <<s>>
    ELSE <<SubSeq(s, 1, i - 1)>> \o Split(SubSeq(s, i + 1, Len(s)), sep)

RECURSIVE LStrip(_)
LStrip(s) ==
    IF s # <<>> /\ s[1] = " " THEN LStrip(Tail(s)) ELSE s

(* s.split(maxsplit=1): the first word and what follows the blanks *)
SplitWords1(s) ==
    LET t == LStrip(s)
        i == Find(t, " ")
    IN IF t = <<>> THEN <<>>
       ELSE IF i = 0 THEN <<t>>
       ELSE IF LStrip(SubSeq(t, i, Len(t))) = <<>> THEN <<SubSeq(t, 1, i - 1)>>
       ELSE <<SubSeq(t, 1, i - 1), LStrip(SubSeq(t, i, Len(t)))>>

RECURSIVE Join(_, _)
Join(fields, sep) ==
    IF Len(fields) = 0 THEN <<>>
    ELSE IF Len(fields) = 1 THEN fields[1]
    ELSE fields[1] \o <<sep>> \o Join(Tail(fields), sep)

(***************************************************************************)
(* /start, with or without the deep link of a channel post.                *)
(***************************************************************************)
CmdStart == <<"/", "s", "t", "a", "r", "t">>

ConfPrefix == <<"c", "o", "n", "f", "_">>

(* a payload that drops the sign of the id *)
DeepLinkPayload_unsigned(conf_id) ==
    ConfPrefix \o NatToStr(IF conf_id < 0 THEN 0 - conf_id ELSE conf_id)

(* the start parameter of the url of build_channel_markup: conf_<id> *)
DeepLinkPayload(conf_id) ==
    ConfPrefix \o IntToStr(conf_id)

(* the message Telegram sends for a t.me/<bot>?start=<payload> link *)
StartText(payload) ==
    CmdStart \o <<" ">> \o payload

(* the hub of a confession: hub_keyboard(conf_id, total) *)
StartHub(uid, conf_id) ==
    IF \E r \in db_get_confession(conf_id) : r.is_approved
    THEN {Msg(uid, "hub", conf_id, db_count_comments(comments, conf_id), TRUE)}
    ELSE {Msg(uid, "not_found", conf_id, 0, TRUE)}

cmd_start(uid, text) ==
    LET parts == SplitWords1(text)
        payload == IF Len(parts) > 1 THEN parts[2] ELSE <<>>
        link == payload # <<>> /\ StartsWith(payload, ConfPrefix)
        id_s == IF link THEN SplitOnce(payload, "_")[2] ELSE <<>>
        valid == link /\ IsIntLiteral(id_s)
    IN
    /\ last' = [h |-> "cmd_start", uid |-> uid, text |-> text, link |-> link,
                valid |-> valid, conf_id |-> IF valid THEN ParseInt(id_s) ELSE 0]
    /\ outbox' = IF link
                 THEN IF valid THEN StartHub(uid, ParseInt(id_s))
                      ELSE {Msg(uid, "invalid_link", 0, 0, TRUE)}
                 ELSE IF uid \notin accepted_terms
                      THEN {Msg(uid, "terms", 0, 0, TRUE)}
                      ELSE {Msg(uid, "what_to_share", 0, 0, TRUE)}
    /\ UNCHANGED <<conv_vars, aux_vars, store_vars, tg_vars>>

(***************************************************************************)
(* Handlers run in steps.  webhook() is awaited once per update and the    *)
(* updates of one user can be in the event loop together: a handler runs   *)
(* to its first await, is suspended there (inflight), and another handler  *)
(* can run before it is resumed.  handle_message reads user_state and      *)
(* inserts its row before its first await and pops user_state after its    *)
(* last one.                                                               *)
(***************************************************************************)
MaxInflight == 2

Task(h, uid, branch, ref, text, count, want, existing, db_ok) ==
    [h |-> h, uid |-> uid, branch |-> branch, ref |-> ref, text |-> text,
     count |-> count, want |-> want, existing |-> existing, db_ok |-> db_ok]

Without(seq, i) ==
    SubSeq(seq, 1, i - 1) \o SubSeq(seq, i + 1, Len(seq))

(* handle_message up to its first await: the state is read, the row is     *)
(* inserted and, for a comment, new_count is read                          *)
handle_message_begin(uid, text, db_ok) ==
    LET st == user_state[uid]
        branch == IF st.active_conf_id # 0 THEN "comment" ELSE "confession"
        conf_id == IF branch = "comment" THEN st.active_conf_id
                   ELSE Cardinality(confessions) + 1
    IN
    /\ profile_flow_state[uid] = ""
    /\ ~user_reply_state[uid].on
    /\ st.active_conf_id # 0 \/ st.mode \in ShareModes
    /\ Len(inflight) < MaxInflight
    /\ IF branch = "comment"
       THEN /\ comment_seq < MaxComments
            /\ comments' = IF db_ok THEN comments \cup {NewComment(conf_id, uid, text, 0)}
                           ELSE comments
            /\ comment_seq' = IF db_ok THEN comment_seq + 1 ELSE comment_seq
            /\ UNCHANGED confessions
       ELSE /\ Cardinality(confessions) < MaxConfessions
            /\ confessions' = IF db_ok THEN confessions \cup {NewConfession(conf_id, uid, text)}
                              ELSE confessions
            /\ UNCHANGED <<comments, comment_seq>>
    /\ inflight' = Append(inflight,
                          Task("handle_message", uid, branch, conf_id, text,
                               db_count_comments(comments', conf_id), 0, {}, db_ok))
    /\ outbox' = {}
    /\ last' = [h |-> "handle_message_begin", uid |-> uid, branch |-> branch,
                conf_id |-> conf_id, db_ok |-> db_ok]
    /\ UNCHANGED <<conv_vars, profiles, votes, reports, tg_vars>>

(* the rest of handle_message: the transport calls, then the pop *)
handle_message_resume(i, tg_ok, ans_ok) ==
    LET t == inflight[i] IN
    /\ t.h = "handle_message"
    /\ inflight' = Without(inflight, i)
    /\ user_state' = PopAfterAnswer(t.uid, ans_ok)
    /\ last' = [h |-> "handle_message", uid |-> t.uid, branch |-> t.branch,
                conf_id |-> t.ref, db_ok |-> t.db_ok, tg_ok |-> tg_ok, done |-> ans_ok]
    /\ IF t.branch = "comment"
       THEN /\ channel' = IF t.db_ok THEN SyncCounter(t.ref, t.count, tg_ok) ELSE channel
            /\ outbox' = {Msg(t.uid, IF t.db_ok THEN "comment_live" ELSE "comment_failed",
                              t.ref, 0, ans_ok)}
            /\ UNCHANGED review_msgs
       ELSE /\ review_msgs' = IF t.db_ok /\ tg_ok
                              THEN review_msgs \cup
                                   {[conf_id |-> t.ref, shown |-> "review",
                                     content |-> ReviewText(t.ref, t.text), kb |-> TRUE]}
                              ELSE review_msgs
            /\ outbox' = IF ~t.db_ok THEN {Msg(t.uid, "confession_failed", 0, 0, ans_ok)}
                         ELSE IF tg_ok THEN {Msg("admin", "review", t.ref, 0, TRUE),
                                             Msg(t.uid, "sent_for_review", t.ref, 0, ans_ok)}
                         ELSE {Msg("admin", "review", t.ref, 0, FALSE),
                               Msg(t.uid, "forward_failed", t.ref, 0, ans_ok)}
            /\ UNCHANGED channel
    /\ UNCHANGED <<accepted_terms, user_reply_state, profile_flow_state, profiles,
                   store_vars, report_msgs>>

(* a write that inserts when the read found no row *)
VoteApply_plain_insert(user_id, c_id, want, existing) ==
    IF existing # {}
    THEN IF (CHOOSE v \in existing : TRUE).vote = want
         THEN db_delete_vote(user_id, c_id)
         ELSE db_upsert_vote(user_id, c_id, want)
    ELSE db_upsert_vote_insert_only(user_id, c_id, want)

(* the branch vote_cb takes on the rows its read returned, applied to the  *)
(* table as it is when the write arrives                                   *)
VoteApply(user_id, c_id, want, existing) ==
    IF existing # {}
    THEN IF (CHOOSE v \in existing : TRUE).vote = want
         THEN db_delete_vote(user_id, c_id)
         ELSE db_upsert_vote(user_id, c_id, want)
    ELSE db_upsert_vote(user_id, c_id, want)

(* vote_cb up to the answer of its select *)
vote_cb_read(uid, c_id, vtype) ==
    /\ c_id \in 1..comment_seq
    /\ Len(inflight) < MaxInflight
    /\ inflight' = Append(inflight,
                          Task("vote_cb", uid, "vote", c_id, <<>>, 0, Want(vtype),
                               VoteRows(uid, c_id), TRUE))
    /\ outbox' = {}
    /\ last' = [h |-> "vote_cb_read", uid |-> uid, c_id |-> c_id, want |-> Want(vtype),
                had |-> VoteRows(uid, c_id) # {}]
    /\ UNCHANGED <<conv_vars, profiles, store_vars, tg_vars>>

(* the delete or upsert of vote_cb and what follows it *)
vote_cb_write(i, db_ok) ==
    LET t == inflight[i] IN
    /\ t.h = "vote_cb"
    /\ inflight' = Without(inflight, i)
    /\ votes' = IF db_ok THEN VoteApply(t.uid, t.ref, t.want, t.existing) ELSE votes
    /\ outbox' = {Msg(t.uid, "likes", t.ref, db_get_vote_counts(votes', t.ref, TRUE)[1], TRUE),
                  Msg(t.uid, "dislikes", t.ref, db_get_vote_counts(votes', t.ref, TRUE)[2], TRUE),
                  Msg(t.uid, "vote_recorded", t.ref, 0, TRUE)}
    /\ last' = [h |-> "vote_cb_write", uid |-> t.uid, c_id |-> t.ref, want |-> t.want,
                db_ok |-> db_ok, had |-> t.existing # {},
                stale |-> t.existing # VoteRows(t.uid, t.ref)]
    /\ UNCHANGED <<conv_vars, profiles, confessions, comments, comment_seq, reports, tg_vars>>

(***************************************************************************)
(* Callback queries as they arrive: the handler splits call.data itself.   *)
(* A handler that raises is ended there; webhook() swallows the exception  *)
(* and nothing is answered.                                                *)
(***************************************************************************)
Raised(handler, uid, data) ==
    /\ last' = [h |-> "callback_query", handler |-> handler, uid |-> uid,
                data |-> data, raised |-> TRUE]
    /\ outbox' = {}
    /\ UNCHANGED <<conv_vars, aux_vars, store_vars, tg_vars>>

Handled(handler, uid, data) ==
    last' = [h |-> "callback_query", handler |-> handler, uid |-> uid,
             data |-> data, raised |-> FALSE]

(* "if len(parts) < 5": the one check vote_cb makes before it decodes *)
VoteDataOk(parts) ==
    Len(parts) >= 5

(* vote_cb from call.data: vote_<comment_id>_<type>_<conf_id>_<page> *)
vote_cb_data(uid, data, db_ok, cnt_ok) ==
    LET parts == Split(data, "_") IN
    /\ StartsWith(data, <<"v", "o", "t", "e", "_">>)
    /\ IF ~VoteDataOk(parts)
       THEN /\ Handled("vote_cb", uid, data)
            /\ outbox' = {Msg(uid, "invalid", 0, 0, TRUE)}
            /\ UNCHANGED <<conv_vars, aux_vars, store_vars, tg_vars>>
       ELSE IF ~(IsIntLiteral(parts[2]) /\ IsIntLiteral(parts[4]) /\ IsIntLiteral(parts[5]))
       THEN Raised("vote_cb", uid, data)
       ELSE LET c_id == ParseInt(parts[2])
                vtype == IF parts[3] = <<"u", "p">> THEN "up" ELSE "other"
            IN /\ c_id \in 1..comment_seq
               /\ Handled("vote_cb", uid, data)
               /\ votes' = VoteWrite(uid, c_id, Want(vtype), db_ok)
               /\ outbox' = {Msg(uid, "likes", c_id,
                                 db_get_vote_counts(votes', c_id, cnt_ok)[1], TRUE),
                             Msg(uid, "dislikes", c_id,
                                 db_get_vote_counts(votes', c_id, cnt_ok)[2], TRUE),
                             Msg(uid, "vote_recorded", c_id, 0, TRUE)}
               /\ UNCHANGED <<conv_vars, aux_vars, confessions, comments, comment_seq,
                              reports, tg_vars>>

(* browse_cb from call.data: the unpacking wants exactly three fields *)
browse_cb_data(uid, data) ==
    LET parts == Split(data, "_") IN
    /\ StartsWith(data, <<"b", "r", "o", "w", "s", "e", "_">>)
    /\ Handled("browse_cb", uid, data)
    /\ outbox' = IF Len(parts) = 3 /\ IsIntLiteral(parts[2]) /\ IsIntLiteral(parts[3])
                 THEN BrowseOutput(uid, comments, ParseInt(parts[2]), ParseInt(parts[3]))
                 ELSE {Msg(uid, "invalid", 0, 0, TRUE)}
    /\ UNCHANGED <<conv_vars, aux_vars, store_vars, tg_vars>>

(* admin_review_cb from call.data: parts[1] is the action, int(parts[2])   *)
(* the id, outside any try                                                 *)
admin_review_cb_data(data, send_ok, db_res, edit_ok, notice_ok) ==
    LET parts == Split(data, "_") IN
    /\ \/ StartsWith(data, <<"a", "d", "m", "i", "n", "_", "a", "p", "p", "r", "o", "v", "e", "_">>)
       \/ StartsWith(data, <<"a", "d", "m", "i", "n", "_", "r", "e", "j", "e", "c", "t", "_">>)
    /\ IF ~IsIntLiteral(parts[3])
       THEN Raised("admin_review_cb", "admin", data)
       ELSE admin_review_cb(ParseInt(parts[3]),
                            IF parts[2] = <<"r", "e", "j", "e", "c", "t">>
                            THEN "reject" ELSE "approve",
                            send_ok, db_res, edit_ok, notice_ok)

(***************************************************************************)
(* Events.  A button can be pressed only where the bot has shown it: the   *)
(* hub of a published confession (add_c), a comment listed by browse_cb    *)
(* (vote, reply, report), a review or report message of the admin group.   *)
(***************************************************************************)
DbRes == {"ok", "fallback", "fail"}

DelRes == {"ok", "comment_only", "fail"}

Hubs == {r.id : r \in {x \in confessions : x.is_approved}}

EvShare(U) ==
    \E uid \in U :
        \/ \E data \in {"share_experience", "share_thought"} : choose_type_cb(uid, data)
        \/ cmd_share_confession(uid)

EvTerms(U) ==
    \E uid \in U, data \in {"accept_terms", "decline_terms"} : accept_terms_cb(uid, data)

(* an outcome flag the handler's branch never reads is fixed to TRUE *)
EvText(U, T) ==
    \E uid \in U, text \in T, db_ok \in BOOLEAN, tg_ok \in BOOLEAN, ans_ok \in BOOLEAN :
        /\ ~db_ok => tg_ok
        /\ (user_state[uid].active_conf_id = 0 /\ user_state[uid].mode \notin ShareModes)
              => (db_ok /\ tg_ok /\ ans_ok)
        /\ handle_message(uid, text, db_ok, tg_ok, ans_ok)

EvReplyText(U, T) ==
    \E uid \in U, text \in T, db_ok \in BOOLEAN : handle_reply(uid, text, db_ok)

EvReject ==
    \E conf_id \in 1..MaxConfessions, db_res \in {"ok", "fail"}, edit_ok \in BOOLEAN :
        admin_review_cb(conf_id, "reject", TRUE, db_res, edit_ok, TRUE)

EvApprove ==
    \E conf_id \in 1..MaxConfessions, send_ok \in BOOLEAN,
       db_res \in DbRes, edit_ok \in BOOLEAN, notice_ok \in BOOLEAN :
        /\ send_ok => notice_ok
        /\ ~send_ok => (db_res = "ok" /\ edit_ok)
        /\ admin_review_cb(conf_id, "approve", send_ok, db_res, edit_ok, notice_ok)

(* Ids: the ids of the deep links that are followed; Other: other texts    *)
(* after /start                                                            *)
EvStart(U, Ids, Other) ==
    \E uid \in U :
        \/ cmd_start(uid, CmdStart)
        \/ \E n \in Ids : cmd_start(uid, StartText(DeepLinkPayload(n)))
        \/ \E p \in Other : cmd_start(uid, StartText(p))

(* the data of the buttons of comment_vote_kb and pagination_kb, and data  *)
(* no button of the bot carries                                            *)
VoteData ==
    {Join(<<<<"v", "o", "t", "e">>, c, d, <<"1">>, <<"1">>>>, "_") :
        c \in {<<"1">>, <<"x">>}, d \in {<<"u", "p">>, <<"d", "w">>, <<"s", "i", "d", "e">>}}
    \cup {Join(<<<<"v", "o", "t", "e">>, <<"1">>, <<"u", "p">>, <<"1">>>>, "_"),
          Join(<<<<"v", "o", "t", "e">>, <<"2">>, <<"u", "p">>, <<"1">>, <<"1">>, <<"9">>>>, "_")}

BrowseData ==
    {Join(<<<<"b", "r", "o", "w", "s", "e">>, c, p>>, "_") :
        c \in {<<"1">>, <<"x">>}, p \in {<<"1">>, <<"-", "1">>, <<>>}}
    \cup {Join(<<<<"b", "r", "o", "w", "s", "e">>, <<"1">>>>, "_"),
          Join(<<<<"b", "r", "o", "w", "s", "e">>, <<"1">>, <<"1">>, <<"1">>>>, "_")}

ReviewData ==
    {Join(<<<<"a", "d", "m", "i", "n">>, a, c>>, "_") :
        a \in {<<"a", "p", "p", "r", "o", "v", "e">>, <<"r", "e", "j", "e", "c", "t">>},
        c \in {<<"2">>, <<"x">>, <<>>}}

EvVoteData(U) ==
    \E uid \in U, data \in VoteData, db_ok \in BOOLEAN :
        vote_cb_data(uid, data, db_ok, TRUE)

EvBrowseData(U) ==
    \E uid \in U, data \in BrowseData : browse_cb_data(uid, data)

(* the store and the transport answer the moderator's press *)
EvReviewData ==
    \E data \in ReviewData : admin_review_cb_data(data, TRUE, "ok", TRUE, TRUE)

EvTextBegin(U, T) ==
    \E uid \in U, text \in T, db_ok \in BOOLEAN : handle_message_begin(uid, text, db_ok)

(* the answer to the user goes out; the forward of a failed insert is not  *)
(* attempted                                                               *)
EvTextResume ==
    \E i \in 1..Len(inflight), tg_ok \in BOOLEAN :
        /\ (inflight[i].h = "handle_message" /\ ~inflight[i].db_ok) => tg_ok
        /\ handle_message_resume(i, tg_ok, TRUE)

(* Ids: the comments whose vote buttons are pressed *)
EvVoteRead(U, Ids) ==
    \E uid \in U, c_id \in Ids, vtype \in {"up", "dw"} :
        vote_cb_read(uid, c_id, vtype)

(* the moderator approves and the store and the transport go along *)
EvApproveOk ==
    \E conf_id \in 1..MaxConfessions :
        admin_review_cb(conf_id, "approve", TRUE, "ok", TRUE, TRUE)

EvVoteWrite ==
    \E i \in 1..Len(inflight), db_ok \in BOOLEAN : vote_cb_write(i, db_ok)

EvMenu(U) ==
    \E uid \in U, data \in {"cmd_profile", "cmd_rules", "cmd_cancel", "share_confession"} :
        menu_inline_commands(uid, data)

EvCancelReply(U) ==
    \E uid \in U : cancel_reply_cb(uid)

EvNoop(U) ==
    \E uid \in U : noop_cb(uid)

EvProfEdit(U) ==
    \E uid \in U, field \in {"bio", "nick"} : prof_edit_field(uid, field)

(* a failure of the profiles upsert shows only when a value is stored *)
EvProfileText(U, In) ==
    \E uid \in U, in \in In, db_ok \in BOOLEAN :
        /\ profile_flow_state[uid] # ""
        /\ ~ProfileDecision(profile_flow_state[uid], in).store => db_ok
        /\ handle_profile_inputs(uid, in, db_ok)

EvAddComment(U) ==
    \E uid \in U, conf_id \in Hubs : add_comment_cb(uid, conf_id)

(* add_c_<id> arriving for any stored confession: add_comment_cb reads the *)
(* id from the callback data and looks nothing up                          *)
EvAddCommentAny(U) ==
    \E uid \in U, r \in confessions : add_comment_cb(uid, r.id)

(* browse_cb puts the vote, report and Reply buttons on the top-level      *)
(* comments of a page and on the replies filed under them                  *)
Listed(c) ==
    \/ IsTopLevel(c)
    \/ \E p \in comments : /\ p.id = c.parent_comment_id /\ IsTopLevel(p)
                            /\ p.confession_id = c.confession_id

EvReply(U) ==
    \E uid \in U, c \in comments :
        /\ Listed(c)
        /\ reply_cb(uid, c.id, c.confession_id, 1)

(* CntOk: the outcomes of the read of the counts that follows the write *)
EvVote(U, CntOk) ==
    \E uid \in U, c_id \in 1..MaxComments, vtype \in {"up", "dw"},
       db_ok \in BOOLEAN, cnt_ok \in CntOk :
        vote_cb(uid, c_id, vtype, db_ok, cnt_ok)

(* Ids: the comments whose report button is pressed *)
EvReport(U, Ids) ==
    \E uid \in U, c \in comments :
        /\ c.id \in Ids
        /\ report_cb(uid, c.id, c.confession_id)

EvReason(U, R) ==
    \E uid \in U, reason \in R, db_ok \in BOOLEAN, tg_ok \in BOOLEAN :
        /\ user_state[uid].report_c_id = 0 => (db_ok /\ tg_ok)
        /\ (~db_ok \/ ReportExists(user_state[uid].report_c_id, uid)) => tg_ok
        /\ reason_cb(uid, reason, db_ok, tg_ok)

(* TgOk: the outcomes of the edit of the channel post's counter *)
EvDelete(TgOk) ==
    \E m \in report_msgs, del_res \in DelRes, votes_ok \in BOOLEAN, reports_ok \in BOOLEAN,
       tg_ok \in TgOk, edit_ok \in BOOLEAN :
        /\ (\A c \in comments : c.parent_comment_id # m.c_id) => del_res # "comment_only"
        /\ (\A v \in BagToSet(votes) : v.comment_id # m.c_id) => votes_ok
        /\ (\A r \in BagToSet(reports) : r.comment_id # m.c_id) => reports_ok
        /\ (SyncCounter(m.conf_id, db_count_comments(DeleteCommentRows(m.c_id, del_res),
                                                      m.conf_id), TRUE) = channel) => tg_ok
        /\ admin_delete_comment_cb(m, del_res, votes_ok, reports_ok, tg_ok, edit_ok)

(* votes and deletions with every store and transport call succeeding *)
EvVoteOk(U) ==
    \E uid \in U, c_id \in 1..MaxComments, vtype \in {"up", "dw"} :
        vote_cb(uid, c_id, vtype, TRUE, TRUE)

EvDeleteOk ==
    \E m \in report_msgs : admin_delete_comment_cb(m, "ok", TRUE, TRUE, TRUE, TRUE)

EvDismiss ==
    \E m \in report_msgs, db_ok \in BOOLEAN, edit_ok \in BOOLEAN :
        admin_dismiss_report_cb(m, db_ok, edit_ok)

(* the page of a browse_<conf_id>_<page> button is any integer that parses *)
EvBrowse(U) ==
    \E uid \in U, conf_id \in Hubs, page \in -1..MaxPageReq :
        browse_cb(uid, conf_id, page)

(***************************************************************************)
(* The submission and moderation pipeline, from an empty store.            *)
(***************************************************************************)
Next == EvShare(Authors) \/ EvText(Authors, Texts) \/ EvApprove \/ EvReject

Spec == Init /\ [][Next]_vars

(***************************************************************************)
(* Engagement on a confession already published: the state after           *)
(* cmd_share_confession, handle_message and an approve by the moderator,   *)
(* then InitComments top-level comments by the author.                     *)
(***************************************************************************)
InitComments == 2

InitPublished ==
    /\ accepted_terms = {}
    /\ user_state = [u \in Users |-> NoState]
    /\ user_reply_state = [u \in Users |-> NoReply]
    /\ profile_flow_state = [u \in Users |-> ""]
    /\ profiles = [u \in Users |-> NoProfile]
    /\ inflight = <<>>
    /\ confessions = {[id |-> 1, user_id |-> "u1", text |-> <<"a">>,
                       is_approved |-> TRUE, channel_msg_id |-> 1]}
    /\ comments = {}
    /\ comment_seq = 0
    /\ votes = EmptyBag
    /\ reports = EmptyBag
    /\ channel = <<[conf_id |-> 1, text |-> <<"a">>, count |-> 0]>>
    /\ review_msgs = {[conf_id |-> 1, shown |-> "published", content |-> <<"Published.">>, kb |-> FALSE]}
    /\ report_msgs = {}
    /\ outbox = {}
    /\ last = [h |-> "init"]

InitEngaged ==
    /\ accepted_terms = {}
    /\ user_state = [u \in Users |-> NoState]
    /\ user_reply_state = [u \in Users |-> NoReply]
    /\ profile_flow_state = [u \in Users |-> ""]
    /\ profiles = [u \in Users |-> NoProfile]
    /\ inflight = <<>>
    /\ confessions = {[id |-> 1, user_id |-> "u1", text |-> <<"a">>,
                       is_approved |-> TRUE, channel_msg_id |-> 1]}
    /\ comments = {[id |-> i, confession_id |-> 1, user_id |-> "u1", text |-> <<"a">>,
                    parent_comment_id |-> 0] : i \in 1..InitComments}
    /\ comment_seq = InitComments
    /\ votes = EmptyBag
    /\ reports = EmptyBag
    /\ channel = <<[conf_id |-> 1, text |-> <<"a">>, count |-> InitComments]>>
    /\ review_msgs = {[conf_id |-> 1, shown |-> "published", content |-> <<"Published.">>, kb |-> FALSE]}
    /\ report_msgs = {}
    /\ outbox = {}
    /\ last = [h |-> "init"]

NextThread == EvAddComment(Users) \/ EvText(Users, {<<"a">>}) \/ EvReply(Users)
                \/ EvReplyText(Users, {<<"a">>})

SpecThread == InitPublished /\ [][NextThread]_vars

(* votes on the comments, the write failing or not; the read of the counts *)
(* for the buttons succeeds                                                 *)
NextVote == EvVote(Users, {TRUE})

SpecVote == InitEngaged /\ [][NextVote]_vars

(* reports and their handling by the moderator, every store call failing   *)
(* or not; the edit of the channel counter after a delete succeeds         *)
NextReport == EvReport(Authors, 1..MaxComments) \/ EvReason(Authors, {"Other"}) \/ EvDismiss \/ EvDelete({TRUE})

SpecReport == InitEngaged /\ [][NextReport]_vars

(***************************************************************************)
(* The conversation flows of one user on a published confession:           *)
(* sharing, commenting, replying, reporting comment 1, the profile         *)
(* fields, and the cancel buttons.                                         *)
(***************************************************************************)
NextFlow ==
    \/ EvShare(Authors) \/ EvMenu(Authors)
    \/ EvAddComment(Authors) \/ EvReply(Authors) \/ EvCancelReply(Authors)
    \/ EvReport(Authors, {1}) \/ EvReason(Authors, {"Other"}) \/ EvNoop(Authors)
    \/ EvProfEdit(Authors)
    \/ EvProfileText(Authors, {in \in ProfileInputs : in.txt \in {"a", "longer"}})
    \/ EvText(Authors, {<<"a">>}) \/ EvReplyText(Authors, {<<"a">>})

SpecFlow == InitEngaged /\ [][NextFlow]_vars

(***************************************************************************)
(* Handlers of one user interleaved at their awaits, from an empty store.  *)
(***************************************************************************)
NextInterleave ==
    \/ EvShare(Authors) \/ EvApproveOk \/ EvAddComment(Authors)
    \/ EvTextBegin(Authors, {<<"a">>}) \/ EvTextResume

SpecInterleave == Init /\ [][NextInterleave]_vars

(***************************************************************************)
(* Vote presses on the first comment of the published confession, the      *)
(* select and the write of each press apart.                               *)
(***************************************************************************)
NextVoteSteps == EvVoteRead(Users, {1}) \/ EvVoteWrite

SpecVoteSteps == InitEngaged /\ [][NextVoteSteps]_vars

(***************************************************************************)
(* Two users side by side.  u2 has accepted the terms, pressed Add Comment, *)
(* Reply under comment 1 and Edit Bio, and has sent nothing yet; u1 goes    *)
(* through the flows while u2 sends its texts.                              *)
(***************************************************************************)
Others == Users \ Authors

InitIsolation ==
    /\ accepted_terms = Others
    /\ user_state = [u \in Users |-> IF u \in Others
                                      THEN [NoState EXCEPT !.active_conf_id = 1]
                                      ELSE NoState]
    /\ user_reply_state = [u \in Users |-> IF u \in Others
                                            THEN [on |-> TRUE, confession_id |-> 1,
                                                  parent_comment_id |-> 1, page |-> 1]
                                            ELSE NoReply]
    /\ profile_flow_state = [u \in Users |-> IF u \in Others THEN "bio" ELSE ""]
    /\ profiles = [u \in Users |-> NoProfile]
    /\ inflight = <<>>
    /\ confessions = {[id |-> 1, user_id |-> "u1", text |-> <<"a">>,
                       is_approved |-> TRUE, channel_msg_id |-> 1]}
    /\ comments = {[id |-> i, confession_id |-> 1, user_id |-> "u1", text |-> <<"a">>,
                    parent_comment_id |-> 0] : i \in 1..InitComments}
    /\ comment_seq = InitComments
    /\ votes = EmptyBag
    /\ reports = EmptyBag
    /\ channel = <<[conf_id |-> 1, text |-> <<"a">>, count |-> InitComments]>>
    /\ review_msgs = {[conf_id |-> 1, shown |-> "published", content |-> <<"Published.">>,
                       kb |-> FALSE]}
    /\ report_msgs = {}
    /\ outbox = {}
    /\ last = [h |-> "init"]

NextIsolation ==
    \/ EvTerms(Authors) \/ EvShare(Authors) \/ EvMenu(Authors)
    \/ EvAddComment(Authors) \/ EvReply(Authors) \/ EvCancelReply(Authors)
    \/ EvProfEdit(Authors)
    \/ EvProfileText(Others, {in \in ProfileInputs : in.txt = "a"})
    \/ EvText(Users, {<<"a">>}) \/ EvReplyText(Users, {<<"a">>})

SpecIsolation == InitIsolation /\ [][NextIsolation]_vars

(***************************************************************************)
(* What reaches the bot from outside: /start with and without a deep link, *)
(* the terms buttons, and callback data, well formed or not.               *)
(***************************************************************************)
MaxLinkId == 11

LinkIds == (0 - 2)..MaxLinkId

(* start parameters that are not deep links of the bot: conf_x, conf_, x_1 *)
OtherPayloads ==
    {ConfPrefix \o <<"x">>, ConfPrefix, <<"x", "_", "1">>,
     ConfPrefix \o <<"1", "_", "2">>}

(* InitEngaged after a second submission, which waits for the moderator *)
InitEntry ==
    /\ accepted_terms = {}
    /\ user_state = [u \in Users |-> NoState]
    /\ user_reply_state = [u \in Users |-> NoReply]
    /\ profile_flow_state = [u \in Users |-> ""]
    /\ profiles = [u \in Users |-> NoProfile]
    /\ inflight = <<>>
    /\ confessions = {[id |-> 1, user_id |-> "u1", text |-> <<"a">>,
                       is_approved |-> TRUE, channel_msg_id |-> 1],
                      NewConfession(2, "u1", <<"a">>)}
    /\ comments = {[id |-> i, confession_id |-> 1, user_id |-> "u1", text |-> <<"a">>,
                    parent_comment_id |-> 0] : i \in 1..InitComments}
    /\ comment_seq = InitComments
    /\ votes = EmptyBag
    /\ reports = EmptyBag
    /\ channel = <<[conf_id |-> 1, text |-> <<"a">>, count |-> InitComments]>>
    /\ review_msgs = {[conf_id |-> 1, shown |-> "published", content |-> <<"Published.">>,
                       kb |-> FALSE],
                      [conf_id |-> 2, shown |-> "review", content |-> ReviewText(2, <<"a">>),
                       kb |-> TRUE]}
    /\ report_msgs = {}
    /\ outbox = {}
    /\ last = [h |-> "init"]

NextEntry ==
    \/ EvStart(Authors, LinkIds, OtherPayloads)
    \/ EvTerms(Authors)
    \/ EvVoteData(Authors) \/ EvBrowseData(Authors) \/ EvReviewData

SpecEntry == InitEntry /\ [][NextEntry]_vars

(***************************************************************************)
(* Moderation of a thread: the state after both users voted on the        *)
(* comments of a published confession and reported comment 1; then         *)
(* replies and deletions.                                                  *)
(***************************************************************************)
InitReported ==
    /\ accepted_terms = {}
    /\ user_state = [u \in Users |-> NoState]
    /\ user_reply_state = [u \in Users |-> NoReply]
    /\ profile_flow_state = [u \in Users |-> ""]
    /\ profiles = [u \in Users |-> NoProfile]
    /\ inflight = <<>>
    /\ confessions = {[id |-> 1, user_id |-> "u1", text |-> <<"a">>,
                       is_approved |-> TRUE, channel_msg_id |-> 1]}
    /\ comments = {[id |-> i, confession_id |-> 1, user_id |-> "u1", text |-> <<"a">>,
                    parent_comment_id |-> 0] : i \in 1..InitComments}
    /\ comment_seq = InitComments
    /\ votes = SetToBag({VoteRow("u2", i, 1) : i \in 1..InitComments})
    /\ reports = SetToBag({[comment_id |-> 1, user_id |-> u, reason |-> "Other"] : u \in Users})
    /\ channel = <<[conf_id |-> 1, text |-> <<"a">>, count |-> InitComments]>>
    /\ review_msgs = {[conf_id |-> 1, shown |-> "published", content |-> <<"Published.">>, kb |-> FALSE]}
    /\ report_msgs = {[by |-> u, c_id |-> 1, conf_id |-> 1, kb |-> TRUE] : u \in Users}
    /\ outbox = {}
    /\ last = [h |-> "init"]

NextModerate == EvReply(Authors) \/ EvReplyText(Authors, {<<"a">>}) \/ EvDelete(BOOLEAN)
                  \/ EvDismiss

SpecModerate == InitReported /\ [][NextModerate]_vars

(***************************************************************************)
(* Votes, replies and deletions on the reported thread, every store and    *)
(* transport call of the votes and deletions succeeding.                   *)
(***************************************************************************)
NextOrphans ==
    \/ EvReply(Authors) \/ EvReplyText(Authors, {<<"a">>})
    \/ EvVoteOk(Authors) \/ EvDeleteOk

SpecOrphans == InitReported /\ [][NextOrphans]_vars

(***************************************************************************)
(* Comments written and comments deleted on the reported thread, with the  *)
(* edit of the channel post's counter failing or not.                      *)
(***************************************************************************)
NextCounter == EvAddComment(Authors) \/ EvText(Authors, {<<"a">>}) \/ EvDelete(BOOLEAN)

SpecCounter == InitReported /\ [][NextCounter]_vars

(***************************************************************************)
(* Listing a published confession that has up to MaxListed comments: the   *)
(* comments with an id of ReplyIds are top-level, a reply to comment 1, or *)
(* a reply to the comment just before them.                                *)
(***************************************************************************)
MaxListed == 21

ReplyIds == {2, 3, 12}

InitListed ==
    /\ accepted_terms = {}
    /\ user_state = [u \in Users |-> NoState]
    /\ user_reply_state = [u \in Users |-> NoReply]
    /\ profile_flow_state = [u \in Users |-> ""]
    /\ profiles = [u \in Users |-> NoProfile]
    /\ inflight = <<>>
    /\ confessions = {[id |-> 1, user_id |-> "u1", text |-> <<"a">>,
                       is_approved |-> TRUE, channel_msg_id |-> 1]}
    /\ \E n \in 0..MaxListed, par \in [ReplyIds -> {"none", "first", "previous"}] :
          /\ comments = {[id |-> i, confession_id |-> 1, user_id |-> "u1", text |-> <<"a">>,
                          parent_comment_id |->
                              IF i \notin ReplyIds \/ par[i] = "none" THEN 0
                              ELSE IF par[i] = "first" THEN 1 ELSE i - 1] : i \in 1..n}
          /\ comment_seq = n
          /\ channel = <<[conf_id |-> 1, text |-> <<"a">>, count |-> n]>>
    /\ votes = EmptyBag
    /\ reports = EmptyBag
    /\ review_msgs = {[conf_id |-> 1, shown |-> "published", content |-> <<"Published.">>, kb |-> FALSE]}
    /\ report_msgs = {}
    /\ outbox = {}
    /\ last = [h |-> "init"]

NextBrowse == EvBrowse(Authors)

SpecBrowse == InitListed /\ [][NextBrowse]_vars

(***************************************************************************)
(* Claims about votes (SpecVote).                                          *)
(***************************************************************************)
Likes(table, c_id) == db_get_vote_counts(table, c_id, TRUE)[1]

Dislikes(table, c_id) == db_get_vote_counts(table, c_id, TRUE)[2]

(* C1: after any sequence of vote_cb actions the votes table holds at most *)
(* one row for each (voter, comment) pair.                                 *)
C1_OneVoteRowPerPair ==
    \A u \in Users, c \in 1..MaxComments : CountRows(votes, VoteRows(u, c)) <= 1

(* a flip has just been written over an existing row, and both users have  *)
(* a vote on that comment                                                  *)
C1_Witness ==
    /\ last.h = "vote_cb" /\ last.db_ok /\ last.had
    /\ VoteRows(last.uid, last.c_id) = {VoteRow(last.uid, last.c_id, last.want)}
    /\ \A u \in Users : CountRows(votes, VoteRows(u, last.c_id)) = 1

(* C8: from no vote, casting the same direction twice leaves no row for    *)
(* the (voter, comment) and the comment's like and dislike counts as they  *)
(* were before the first cast.                                             *)
C8_SameVoteTwiceNetsZero ==
    [][(/\ last.h = "vote_cb" /\ last.db_ok /\ ~last.had
        /\ last'.h = "vote_cb" /\ last'.db_ok
        /\ last'.uid = last.uid /\ last'.c_id = last.c_id /\ last'.want = last.want)
       => (/\ VoteRows(last.uid, last.c_id)' = {}
           /\ db_get_vote_counts(votes', last.c_id, TRUE) = last.before)]_vars

(* the second of two equal casts has removed the row while the other user  *)
(* still has a vote on the comment                                         *)
C8_Witness ==
    /\ last.h = "vote_cb" /\ last.db_ok /\ last.had
    /\ VoteRows(last.uid, last.c_id) = {}
    /\ Likes(votes, last.c_id) + Dislikes(votes, last.c_id) = 1
    /\ last.before[1] + last.before[2] = 2

(* C9: a cast against an existing opposite vote overwrites the row: one    *)
(* row of the new value for the pair, the count of the old direction one   *)
(* lower and the count of the new direction one higher.                    *)
C9_FlipOverwrites ==
    [][\A u \in Users, c \in 1..MaxComments :
        (/\ last'.h = "vote_cb" /\ last'.db_ok /\ last'.uid = u /\ last'.c_id = c
         /\ VoteRows(u, c) = {VoteRow(u, c, 0 - last'.want)}
         /\ CountRows(votes, VoteRows(u, c)) = 1)
        => (/\ VoteRows(u, c)' = {VoteRow(u, c, last'.want)}
            /\ CountRows(votes', VoteRows(u, c)') = 1
            /\ VoteCount(votes', c, last'.want) = VoteCount(votes, c, last'.want) + 1
            /\ VoteCount(votes', c, 0 - last'.want) = VoteCount(votes, c, 0 - last'.want) - 1)]_vars

(* an up vote has just been turned into a down vote *)
C9_Witness ==
    /\ last.h = "vote_cb" /\ last.db_ok /\ last.had /\ last.want = -1
    /\ VoteRows(last.uid, last.c_id) = {VoteRow(last.uid, last.c_id, -1)}
    /\ last.before[1] = 2
    /\ Likes(votes, last.c_id) = 1 /\ Dislikes(votes, last.c_id) = 1

(***************************************************************************)
(* Claims about moderation (Spec).                                         *)
(***************************************************************************)
PostsOf(ch, conf_id) == {i \in DOMAIN ch : ch[i].conf_id = conf_id}

(* C2: once a submission is published, a further decision on it is refused: *)
(* it posts nothing more to the channel and leaves the row (status,        *)
(* public-post reference) as it is.                                        *)
C2_PublishedDecidedOnce ==
    [][\A r \in confessions :
        (r.is_approved /\ last'.h = "admin_review_cb" /\ last'.conf_id = r.id)
        => (/\ r \in confessions'
            /\ PostsOf(channel', r.id) = PostsOf(channel, r.id))]_vars

(* C3: a reject that reached the store leaves the row in a state other     *)
(* than the pending one it had, and the submission is not published by a   *)
(* later approve.                                                          *)
C3_RejectedIsFinal ==
    [][/\ \A r \in confessions :
            (/\ ~r.is_approved /\ last'.h = "admin_review_cb" /\ last'.action = "reject"
             /\ last'.conf_id = r.id /\ last'.db_res = "ok")
            => r \notin confessions'
       /\ (last.h = "admin_review_cb" /\ last.action = "reject" /\ last.db_res = "ok")
            => (/\ \A r \in confessions' : r.id = last.conf_id => ~r.is_approved
                /\ PostsOf(channel', last.conf_id) = PostsOf(channel, last.conf_id))]_vars

(* C4: an approve whose channel send fails leaves the confessions table    *)
(* and the channel as they were and sends the moderator a failure notice;  *)
(* a row is approved only with the reference of a post of that submission  *)
(* that is in the channel.                                                 *)
C4_PersistAfterConfirmedSend ==
    /\ [](\A r \in confessions :
            r.is_approved => (/\ r.channel_msg_id \in DOMAIN channel
                              /\ channel[r.channel_msg_id].conf_id = r.id))
    /\ []((last.h = "admin_review_cb" /\ last.action = "approve" /\ ~last.sent)
            => \E msg \in outbox : /\ msg.to = "admin" /\ msg.kind = "publish_failed"
                                    /\ msg.ref = last.conf_id)
    /\ [][(last'.h = "admin_review_cb" /\ last'.action = "approve" /\ ~last'.sent)
            => (confessions' = confessions /\ channel' = channel)]_vars

(* a failed publish of a pending submission: still pending, no reference,  *)
(* nothing in the channel, the notice sent                                 *)
C4_Witness ==
    /\ last.h = "admin_review_cb" /\ last.action = "approve" /\ ~last.sent
    /\ \E r \in confessions : r.id = last.conf_id /\ ~r.is_approved /\ r.channel_msg_id = 0
    /\ channel = <<>>
    /\ Msg("admin", "publish_failed", last.conf_id, 0, TRUE) \in outbox

(* C5: when approve has sent the post and told the moderator "Published",  *)
(* the row is approved and holds the message id of that post.              *)
C5_PublishedIsStored ==
    (/\ last.h = "admin_review_cb" /\ last.action = "approve" /\ last.sent
     /\ Msg("admin", "published", last.conf_id, 0, TRUE) \in outbox)
    => \A r \in db_get_confession(last.conf_id) :
          r.is_approved /\ r.channel_msg_id = Len(channel)

TopLevel(conf_id) ==
    {c \in comments : c.confession_id = conf_id /\ c.parent_comment_id = 0}

(* the button of the post a confession refers to shows its number of       *)
(* top-level comments                                                      *)
CounterSynced(conf_id) ==
    \A r \in db_get_confession(conf_id) :
        r.channel_msg_id \in DOMAIN channel
        => channel[r.channel_msg_id].count = Cardinality(TopLevel(conf_id))

(* C7: an add-comment, add-reply or delete-comment that completes with the *)
(* transport succeeding, on a post whose count was right, leaves the count *)
(* on the post equal to the number of top-level comments.                  *)
C7_CounterIsTopLevelCount ==
    [][\A r \in confessions :
        (/\ CounterSynced(r.id)
         /\ last'.h \in {"handle_message", "handle_reply", "admin_delete_comment_cb"}
         /\ last'.conf_id = r.id /\ last'.tg_ok)
        => CounterSynced(r.id)']_vars

(***************************************************************************)
(* Claims about reports (SpecReport).                                      *)
(***************************************************************************)
(* C10: at most one report row per (reporter, comment); a reason chosen    *)
(* when the pair already has a row, whatever it holds, is answered "already *)
(* reported" and no report is submitted.                                   *)
C10_OneReportPerPair ==
    /\ \A u \in Users, c \in 1..MaxComments : CountRows(reports, ReportRows(c, u)) <= 1
    /\ (last.h = "reason_cb" /\ last.c_id # 0 /\ last.had)
          => /\ Msg(last.uid, "already_reported", last.c_id, 0, TRUE) \in outbox
             /\ \A msg \in outbox : msg.kind \notin {"report_submitted", "new_report"}

(* a second report on a comment whose first report was dismissed *)
C10_Witness ==
    /\ last.h = "reason_cb" /\ last.db_ok /\ last.had
    /\ [comment_id |-> last.c_id, user_id |-> last.uid, reason |-> "dismissed"]
          \in BagToSet(reports)

(* a second report on a comment that was deleted, its report resolved *)
C10_WitnessResolved ==
    /\ last.h = "reason_cb" /\ last.db_ok /\ last.had
    /\ [comment_id |-> last.c_id, user_id |-> last.uid, reason |-> "resolved"]
          \in BagToSet(reports)

(***************************************************************************)
(* Claims about the listing (SpecBrowse).  The expected values are written *)
(* over the set of top-level rows, not over the sequences browse_cb builds. *)
(***************************************************************************)
(* ceil(t / PerPage): the least number of pages of PerPage slots holding t *)
PagesNeeded(t) ==
    CHOOSE k \in 0..t : k * PerPage >= t /\ (k = 0 \/ (k - 1) * PerPage < t)

(* the position of a top-level comment among those of its confession, in   *)
(* ascending id order                                                      *)
Rank(c) ==
    Cardinality({d \in TopLevel(c.confession_id) : d.id <= c.id})

ShownIds(out, kinds) == {m.ref : m \in {x \in out : x.kind \in kinds}}

Position(out, id) ==
    (CHOOSE m \in out : m.kind \in {"comment", "reply"} /\ m.ref = id).n

(* C14: page k of 1..ceil(T/S) holds exactly min(S, T-(k-1)*S) comments,   *)
(* all of them top-level; Next is offered iff k < ceil(T/S), Prev iff      *)
(* k > 1.                                                                  *)
C14_PageSizesAndControls ==
    LET t == Cardinality(TopLevel(last.conf_id))
        k == last.page
        rest == t - (k - 1) * PerPage
        items == {m \in outbox : m.kind = "comment"}
    IN (last.h = "browse_cb" /\ k \in 1..PagesNeeded(t))
       => /\ Cardinality(items) = (IF PerPage <= rest THEN PerPage ELSE rest)
          /\ \A m \in items : \E c \in TopLevel(last.conf_id) : c.id = m.ref
          /\ (\E m \in outbox : m.kind = "next") <=> (k < PagesNeeded(t))
          /\ (\E m \in outbox : m.kind = "prev") <=> (k > 1)

(* the last of three pages: one comment, Prev and no Next *)
C14_Witness ==
    /\ last.h = "browse_cb" /\ last.page = 3
    /\ Cardinality(TopLevel(1)) = 2 * PerPage + 1
    /\ Cardinality({m \in outbox : m.kind = "comment"}) = 1
    /\ \E m \in outbox : m.kind = "prev" /\ m.ref = 2
    /\ \A m \in outbox : m.kind # "next"

(* C15: whatever page number is asked for, browse_cb answers, and what it  *)
(* serves is page max(1, min(p, ceil(total/PerPage))) of the top-level     *)
(* comments: that page's comments and its number; with no top-level        *)
(* comment the page served is the empty page 1, "No comments yet".         *)
C15_PageClamped ==
    LET t == Cardinality(TopLevel(last.conf_id))
        p == last.page
        low == IF p <= PagesNeeded(t) THEN p ELSE PagesNeeded(t)
        served == IF low >= 1 THEN low ELSE 1
    IN last.h = "browse_cb"
       => IF t = 0
          THEN outbox = {Msg(last.uid, "no_comments", last.conf_id, 0, TRUE)}
          ELSE /\ Msg(last.uid, "displaying_page", served, t, TRUE) \in outbox
               /\ Msg(last.uid, "page_of", served, PagesNeeded(t), TRUE) \in outbox
               /\ ShownIds(outbox, {"comment"})
                    = {c.id : c \in {d \in TopLevel(last.conf_id) :
                                        PagesNeeded(Rank(d)) = served}}

(* a page beyond the last one was asked for and the last page was served *)
C15_Witness ==
    /\ last.h = "browse_cb"
    /\ Cardinality(TopLevel(1)) > PerPage
    /\ last.page > PagesNeeded(Cardinality(TopLevel(1)))
    /\ \E m \in outbox : /\ m.kind = "displaying_page"
                         /\ m.ref = PagesNeeded(Cardinality(TopLevel(1)))

(* a page below 1 was asked for and page 1 of several was served *)
C15_WitnessBelow ==
    /\ last.h = "browse_cb" /\ last.page < 1
    /\ Msg(last.uid, "displaying_page", 1, 2 * PerPage, TRUE) \in outbox
    /\ \E m \in outbox : m.kind = "next"

(* C16: the total and the page slots are those of the comments without a   *)
(* parent, and every reply whose parent is displayed on a page is          *)
(* displayed on that page after its parent, with nothing but replies to    *)
(* that parent in between.                                                 *)
C16_RepliesFollowParent ==
    last.h = "browse_cb"
    => /\ \A m \in outbox : m.kind = "displaying_page"
              => m.n = Cardinality(TopLevel(last.conf_id))
       /\ ShownIds(outbox, {"comment"}) \subseteq {c.id : c \in TopLevel(last.conf_id)}
       /\ \A r \in comments, p \in comments :
              (/\ r.parent_comment_id = p.id
               /\ r.confession_id = last.conf_id /\ p.confession_id = last.conf_id
               /\ p.id \in ShownIds(outbox, {"comment", "reply"}))
              => /\ r.id \in ShownIds(outbox, {"reply"})
                 /\ Position(outbox, p.id) < Position(outbox, r.id)
                 /\ \A m \in outbox :
                       (/\ m.kind \in {"comment", "reply"}
                        /\ Position(outbox, p.id) < m.n /\ m.n < Position(outbox, r.id))
                       => \E x \in comments : x.id = m.ref /\ x.parent_comment_id = p.id

(* the ids of the top-level comments of an output, in the order sent *)
RECURSIVE InOrderSent(_)
InOrderSent(items) ==
    IF items = {} THEN <<>>
    ELSE LET first == CHOOSE x \in items : \A y \in items : x.n <= y.n
         IN <<first.ref>> \o InOrderSent(items \ {first})

RECURSIVE ConcatPages(_, _, _)
ConcatPages(conf_id, k, n) ==
    IF k > n THEN <<>>
    ELSE InOrderSent({m \in BrowseOutput("u1", comments, conf_id, k) : m.kind = "comment"})
           \o ConcatPages(conf_id, k + 1, n)

(* C17: pages 1..ceil(T/PerPage) one after the other hold every top-level  *)
(* comment of the confession exactly once, in ascending id order.          *)
C17_PagesCoverInOrder ==
    \A conf_id \in Hubs :
        LET t == Cardinality(TopLevel(conf_id))
            all == ConcatPages(conf_id, 1, PagesNeeded(t))
        IN /\ Len(all) = t
           /\ {all[i] : i \in 1..Len(all)} = {c.id : c \in TopLevel(conf_id)}
           /\ \A i \in 1..Len(all), j \in 1..Len(all) : i < j => all[i] < all[j]

(* the second of two pages was listed, with a reply on it *)
C17_Witness ==
    /\ last.h = "browse_cb" /\ last.page = 2
    /\ PagesNeeded(Cardinality(TopLevel(1))) = 2
    /\ \E m \in outbox : m.kind = "reply"
    /\ Cardinality({m \in outbox : m.kind = "comment"}) > 1

(***************************************************************************)
(* Claims about threads (SpecThread).                                      *)
(***************************************************************************)
(* C18: every comment that has a parent refers to a comment of the same    *)
(* confession that has no parent itself.                                   *)
C18_OneLevelDeep ==
    \A c \in comments :
        c.parent_comment_id # 0
        => \E p \in comments : /\ p.id = c.parent_comment_id
                               /\ p.confession_id = c.confession_id
                               /\ p.parent_comment_id = 0

(***************************************************************************)
(* Claims about the text a decision uses (Spec).                           *)
(***************************************************************************)
(* C13: the text posted to the channel by an approve, and the text shown   *)
(* in the notice of a reject, is the text the submission has in the store  *)
(* when the moderator decides.                                             *)
C13_DecisionUsesCurrentText ==
    [][\A r \in confessions :
        (last'.h = "admin_review_cb" /\ last'.conf_id = r.id)
        => /\ (last'.action = "approve" /\ last'.sent)
                => channel'[Len(channel')].text = r.text
           /\ \A m \in review_msgs' :
                (m.conf_id = r.id /\ m.shown = "rejected")
                => m.content = <<"Rejected. Original:">> \o r.text]_vars

(***************************************************************************)
(* Claims about the collecting states (SpecThread).                        *)
(***************************************************************************)
Collecting(u) == user_state[u].active_conf_id # 0 \/ user_reply_state[u].on

FreeTextBy(u) ==
    /\ last'.h \in {"handle_message", "handle_reply"}
    /\ last'.uid = u

(* C20: a free text of a user in collecting-comment or collecting-reply    *)
(* state, stored and its handler completed, adds exactly one comment row,  *)
(* on the confession of that state and with the parent of a reply state,   *)
(* and leaves the user in no collecting state; a free text of a user in no *)
(* collecting state adds no comment.                                       *)
C20_TextConsumesCollectingState ==
    [][\A u \in Users :
        /\ (FreeTextBy(u) /\ Collecting(u) /\ last'.db_ok /\ last'.done)
             => /\ comments \subseteq comments'
                /\ Cardinality(comments' \ comments) = 1
                /\ \A c \in comments' \ comments :
                      /\ c.user_id = u
                      /\ IF user_reply_state[u].on
                         THEN /\ c.confession_id = user_reply_state[u].confession_id
                              /\ c.parent_comment_id = user_reply_state[u].parent_comment_id
                         ELSE /\ c.confession_id = user_state[u].active_conf_id
                              /\ c.parent_comment_id = 0
                /\ ~Collecting(u)'
        /\ (FreeTextBy(u) /\ ~Collecting(u)) => comments' = comments]_vars

(***************************************************************************)
(* Claims about deleting a comment (SpecModerate).                         *)
(***************************************************************************)
ListedOnSomePage(rows, conf_id, c_id) ==
    \E page \in 1..MaxPageReq :
        c_id \in ShownIds(BrowseOutput("u1", rows, conf_id, page), {"comment", "reply"})

C19_MissingTargetCreatesNothing ==
    [][\A u \in Users :
        /\ (/\ last'.h = "handle_reply" /\ last'.uid = u
            /\ \A c \in comments : c.id # user_reply_state[u].parent_comment_id)
             => (comments' = comments /\ ~user_reply_state'[u].on)
        /\ (/\ last'.h = "handle_message" /\ last'.uid = u /\ last'.branch = "comment"
            /\ db_get_confession(user_state[u].active_conf_id) = {})
             => (comments' = comments /\ user_state'[u] = NoState)]_vars

(***************************************************************************)
(* Claims about the conversation flows.                                    *)
(***************************************************************************)
(* C21: a reason selection by a user in awaiting-report-reason state,     *)
(* the store answering, leaves that user out of that state, whether the    *)
(* report was accepted or was a duplicate, and a report of the pair is     *)
(* stored; a reason selection by a user with no such state creates no      *)
(* report.                                                                 *)
C21_ReasonFinalizesAndClears ==
    [][\A u \in Users :
        (last'.h = "reason_cb" /\ last'.uid = u /\ last'.db_ok)
        => IF user_state[u].report_c_id # 0
           THEN /\ user_state'[u].report_c_id = 0
                /\ \E r \in BagToSet(reports') :
                       r.comment_id = user_state[u].report_c_id /\ r.user_id = u
           ELSE reports' = reports]_vars

(* the cancel button a flow offers has just been handled for u: the Cancel *)
(* under the reply prompt, the Cancel under the report reasons, or /cancel *)
(* of the menu                                                             *)
CancelledReply(u) ==
    last'.h = "cancel_reply_cb" /\ last'.uid = u /\ user_reply_state[u].on

CancelledReport(u) ==
    last'.h = "noop_cb" /\ last'.uid = u /\ user_state[u].report_c_id # 0

CancelledByMenu(u) ==
    last'.h = "menu_inline_commands" /\ last'.uid = u /\ last'.data = "cmd_cancel"

(* C22: the cancel action offered in an in-progress state clears that      *)
(* state of the user and changes no table; the user's next text or reason  *)
(* selection, coming right after the cancel, creates no submission,        *)
(* comment or report.                                                      *)
C22_CancelClearsState ==
    [][\A u \in Users :
        /\ CancelledReply(u) => ~user_reply_state'[u].on
        /\ CancelledReport(u) => user_state'[u].report_c_id = 0
        /\ CancelledByMenu(u) => /\ user_state'[u] = NoState
                                 /\ ~user_reply_state'[u].on
                                 /\ profile_flow_state'[u] = ""
        /\ (CancelledReply(u) \/ CancelledReport(u) \/ CancelledByMenu(u))
              => (store_vars' = store_vars /\ profiles' = profiles)
        /\ (/\ last.h \in {"cancel_reply_cb", "noop_cb", "menu_inline_commands"}
            /\ last.h = "menu_inline_commands" => last.data = "cmd_cancel"
            /\ last.uid = u
            /\ last'.h \in {"handle_message", "handle_reply", "reason_cb"}
            /\ last'.uid = u)
              => (/\ confessions' = confessions /\ comments' = comments
                  /\ reports' = reports)]_vars

(* the flows user u is in *)
ActiveFlows(u) ==
    {f \in {"submission", "comment", "reply", "report", "profile"} :
        \/ f = "submission" /\ user_state[u].mode \in ShareModes
        \/ f = "comment" /\ user_state[u].active_conf_id # 0
        \/ f = "reply" /\ user_reply_state[u].on
        \/ f = "report" /\ user_state[u].report_c_id # 0
        \/ f = "profile" /\ profile_flow_state[u] # ""}

(* C29: in every reachable state each user is in at most one of the flows  *)
(* collecting submission, collecting comment, collecting reply, awaiting   *)
(* report reason, editing profile field.                                   *)
C29_OneFlowPerUser ==
    \A u \in Users : Cardinality(ActiveFlows(u)) <= 1

(***************************************************************************)
(* Claims about the handling of reports by the moderator.                  *)
(***************************************************************************)
(* C24: a dismiss of comment C deletes no comment and no vote and keeps    *)
(* every report row that is not a pending report on C as it is (a row      *)
(* resolved by a deletion stays resolved); when its store call succeeds    *)
(* the pending reports on C are set to dismissed.                          *)
C24_DismissOnlyPending ==
    [][last'.h = "admin_dismiss_report_cb"
       => /\ comments' = comments
          /\ votes' = votes
          /\ BagCardinality(reports') = BagCardinality(reports)
          /\ \A r \in BagToSet(reports) :
                IF r.comment_id = last'.c_id /\ r.reason \in Reasons
                THEN last'.db_ok => /\ ~BagIn(r, reports')
                                    /\ BagIn([r EXCEPT !.reason = "dismissed"], reports')
                ELSE CopiesIn(r, reports') = CopiesIn(r, reports)]_vars

(***************************************************************************)
(* Claims about what reaches the bot from outside (SpecEntry).             *)
(***************************************************************************)
(* C23: accepting the terms adds the user to the consent set and shows the *)
(* share-type selection; it creates no collecting state and no store row.  *)
(* Declining leaves the consent set, every conversation state and the      *)
(* store as they were.                                                     *)
C23_TermsFrame ==
    [][last'.h = "accept_terms_cb"
       => /\ user_state' = user_state
          /\ user_reply_state' = user_reply_state
          /\ profile_flow_state' = profile_flow_state
          /\ store_vars' = store_vars
          /\ profiles' = profiles
          /\ IF last'.data = "accept_terms"
             THEN /\ accepted_terms' = accepted_terms \cup {last'.uid}
                  /\ outbox' = {Msg(last'.uid, "what_sharing", 0, 0, TRUE)}
             ELSE accepted_terms' = accepted_terms]_vars

(* a user who had accepted has declined, and the consent is still there *)
C23_Witness ==
    /\ last.h = "accept_terms_cb"
    /\ last.data = "decline_terms"
    /\ last.uid \in accepted_terms

(* C26: for every integer id n, /start with the payload the channel post's *)
(* button carries for n is taken as a deep link and decoded to exactly n.  *)
C26_DeepLinkRoundTrip ==
    \A n \in LinkIds :
        (last.h = "cmd_start" /\ last.text = StartText(DeepLinkPayload(n)))
        => (last.link /\ last.valid /\ last.conf_id = n)

(* the link of an id of two digits has been followed and decoded *)
C26_Witness ==
    /\ last.h = "cmd_start"
    /\ last.valid
    /\ last.conf_id >= 10
    /\ last.text = StartText(DeepLinkPayload(last.conf_id))

(* the data the keyboards of the bot put on the vote, page and review      *)
(* buttons: the right number of fields, integer ids and page, a direction  *)
(* or an action that is one of the two                                     *)
WellFormed(data) ==
    LET p == Split(data, "_") IN
    \/ /\ p[1] = <<"v", "o", "t", "e">>
       /\ Len(p) = 5
       /\ IsIntLiteral(p[2]) /\ IsIntLiteral(p[4]) /\ IsIntLiteral(p[5])
       /\ p[3] \in {<<"u", "p">>, <<"d", "w">>}
    \/ /\ p[1] = <<"b", "r", "o", "w", "s", "e">>
       /\ Len(p) = 3
       /\ IsIntLiteral(p[2]) /\ IsIntLiteral(p[3])
    \/ /\ p[1] = <<"a", "d", "m", "i", "n">>
       /\ Len(p) = 3
       /\ p[2] \in {<<"a", "p", "p", "r", "o", "v", "e">>, <<"r", "e", "j", "e", "c", "t">>}
       /\ IsIntLiteral(p[3])

(* C25: a callback whose data has the wrong number of fields, or a field   *)
(* that is not an integer where one is due, or a direction that is neither *)
(* up nor down, is answered with an 'invalid' notice, changes no table and *)
(* raises no exception.                                                    *)
C25_MalformedRejected ==
    [][(last'.h = "callback_query" /\ ~WellFormed(last'.data))
       => /\ ~last'.raised
          /\ outbox' = {Msg(last'.uid, "invalid", 0, 0, TRUE)}
          /\ store_vars' = store_vars]_vars

(***************************************************************************)
(* Claims about handlers interleaved at their awaits (SpecInterleave).     *)
(***************************************************************************)
(* C27: when a text of a user has created a row and its handler is still   *)
(* suspended, the next text of the same user, handled before anything else *)
(* and so against the same state entry, creates no second comment or       *)
(* submission.                                                             *)
C27_OneRowPerStateEntry ==
    [][(/\ last.h = "handle_message_begin" /\ last.db_ok
        /\ \E i \in 1..Len(inflight) :
              /\ inflight[i].h = "handle_message" /\ inflight[i].uid = last.uid
              /\ inflight[i].db_ok
        /\ last'.h = "handle_message_begin" /\ last'.uid = last.uid)
       => (comments' = comments /\ confessions' = confessions)]_vars

(* C28: however the reads and writes of the vote presses of one voter on   *)
(* one comment interleave, the votes table holds at most one row for each  *)
(* (voter, comment).                                                       *)
C28_InterleavedVotesOneRow ==
    \A u \in Users, c \in 1..MaxComments :
        /\ Cardinality(VoteRows(u, c)) <= 1
        /\ \A v \in VoteRows(u, c) : CopiesIn(v, votes) = 1

(* two presses have both read no row; the first has written its row and    *)
(* the second has now written over it                                      *)
C28_Witness ==
    /\ last.h = "vote_cb_write" /\ last.db_ok
    /\ ~last.had /\ last.stale
    /\ VoteRows(last.uid, last.c_id) = {VoteRow(last.uid, last.c_id, last.want)}

(***************************************************************************)
(* Claims about the counter of the channel post (SpecCounter).             *)
(***************************************************************************)
(* C30: when the edit of the channel post's counter fails after a comment  *)
(* was created or deleted, the failure is swallowed: the new comment stays *)
(* in the table (the deleted one stays deleted), the post keeps its old    *)
(* counter, and the handler goes on to its end: the user is told the       *)
(* comment is live and, the answer delivered, the conversation state is    *)
(* cleared; the moderator's message is edited to 'deleted'.                *)
C30_CounterFailureSwallowed ==
    [][/\ (/\ last'.h = "handle_message" /\ last'.branch = "comment"
           /\ last'.db_ok /\ ~last'.tg_ok)
          => /\ \E c \in comments' \ comments :
                   /\ c.confession_id = last'.conf_id /\ c.user_id = last'.uid
                   /\ comments' = comments \cup {c}
             /\ channel' = channel
             /\ outbox' = {Msg(last'.uid, "comment_live", last'.conf_id, 0, last'.done)}
             /\ last'.done => user_state'[last'.uid] = NoState
       /\ (/\ last'.h = "admin_delete_comment_cb"
           /\ last'.store_ok /\ ~last'.tg_ok)
          => /\ \A c \in comments' : c.id # last'.c_id /\ c.parent_comment_id # last'.c_id
             /\ comments' \subseteq comments
             /\ channel' = channel
             /\ \E m \in outbox' : m.kind = "comment_deleted" /\ m.ref = last'.c_id]_vars

(* a comment has been written with the counter edit failing, the user has  *)
(* been told and is out of the collecting state, and the post shows fewer  *)
(* comments than the table holds                                           *)
C30_Witness ==
    /\ last.h = "handle_message" /\ last.branch = "comment"
    /\ last.db_ok /\ ~last.tg_ok /\ last.done
    /\ user_state[last.uid] = NoState
    /\ \E i \in DOMAIN channel :
          /\ channel[i].conf_id = last.conf_id
          /\ channel[i].count < db_count_comments(comments, last.conf_id)

(***************************************************************************)
(* Claims about the rows of the store.                                     *)
(***************************************************************************)
(* C35: in every reachable state a submission that carries a public-post   *)
(* reference (channel_msg_id) is published (is_approved).                  *)
C35_ReferenceImpliesPublished ==
    \A r \in confessions : r.channel_msg_id # 0 => r.is_approved

(***************************************************************************)
(* Claims about free text outside a flow (SpecFlow).                       *)
(***************************************************************************)
(* C32: a text from a user who is in no flow only brings up the menu: no   *)
(* submission, comment, vote or report is created and the conversation     *)
(* state of every user stays as it is.                                     *)
C32_IdleTextOnlyMenu ==
    [][\A u \in Users :
        (/\ last'.h = "handle_message" /\ last'.uid = u
         /\ ActiveFlows(u) = {})
        => /\ outbox' = {Msg(u, "what_to_do", 0, 0, TRUE)}
           /\ store_vars' = store_vars
           /\ tg_vars' = tg_vars
           /\ conv_vars' = conv_vars
           /\ profiles' = profiles]_vars

(* the user has written a comment before and now sends a text outside any  *)
(* flow: the menu is all that comes back                                   *)
C32_Witness ==
    /\ last.h = "handle_message" /\ last.branch = "idle"
    /\ ActiveFlows(last.uid) = {}
    /\ outbox = {Msg(last.uid, "what_to_do", 0, 0, TRUE)}
    /\ comment_seq > InitComments

(***************************************************************************)
(* Claims about two users side by side (SpecIsolation).                    *)
(***************************************************************************)
(* what a text of user u is taken for, from u's own entries in the dicts *)
TextRoute(u) ==
    IF profile_flow_state[u] # "" THEN <<"handle_profile_inputs", "">>
    ELSE IF user_reply_state[u].on THEN <<"handle_reply", "">>
    ELSE IF user_state[u].active_conf_id # 0 THEN <<"handle_message", "comment">>
    ELSE IF user_state[u].mode \in ShareModes THEN <<"handle_message", "confession">>
    ELSE <<"handle_message", "idle">>

(* C33: an event of user A leaves the conversation state (the entries of   *)
(* the three dicts) and the terms consent of every other user B as they    *)
(* were, and what a text of B is taken for follows from B's own entries.   *)
C33_NoLeakAcrossUsers ==
    [][\A b \in Users :
        /\ last'.uid # b
              => /\ user_state'[b] = user_state[b]
                 /\ user_reply_state'[b] = user_reply_state[b]
                 /\ profile_flow_state'[b] = profile_flow_state[b]
                 /\ (b \in accepted_terms') = (b \in accepted_terms)
        /\ (/\ last'.uid = b
            /\ last'.h \in {"handle_profile_inputs", "handle_reply", "handle_message"})
              => /\ last'.h = TextRoute(b)[1]
                 /\ last'.h = "handle_message" => last'.branch = TextRoute(b)[2]]_vars

(* u1 has cancelled everything of its own from the menu and u2 is still in *)
(* its three flows, with its consent                                       *)
C33_Witness ==
    /\ last.h = "menu_inline_commands" /\ last.data = "cmd_cancel" /\ last.uid = "u1"
    /\ user_state["u2"].active_conf_id = 1
    /\ user_reply_state["u2"].on
    /\ profile_flow_state["u2"] = "bio"
    /\ "u2" \in accepted_terms

(***************************************************************************)
(* Claims about votes and deleted comments (SpecOrphans).                  *)
(***************************************************************************)
(* C34: in every reachable state every vote row is on a comment that is    *)
(* stored: a deletion leaves no vote on the comment or on the replies      *)
(* removed with it, and a vote on a deleted comment creates no row.        *)
C34_VotesReferToComments ==
    \A v \in BagToSet(votes) : \E c \in comments : c.id = v.comment_id

(***************************************************************************)
(* Comments on a confession whose row carries no channel_msg_id: before    *)
(* the approve, and after an approve whose store update failed.            *)
(***************************************************************************)
(* the state after cmd_share_confession and handle_message by the author:  *)
(* confession 1 waits for the moderator                                    *)
InitPending ==
    /\ accepted_terms = {}
    /\ user_state = [u \in Users |-> NoState]
    /\ user_reply_state = [u \in Users |-> NoReply]
    /\ profile_flow_state = [u \in Users |-> ""]
    /\ profiles = [u \in Users |-> NoProfile]
    /\ inflight = <<>>
    /\ confessions = {NewConfession(1, "u1", <<"a">>)}
    /\ comments = {}
    /\ comment_seq = 0
    /\ votes = EmptyBag
    /\ reports = EmptyBag
    /\ channel = <<>>
    /\ review_msgs = {[conf_id |-> 1, shown |-> "review", content |-> ReviewText(1, <<"a">>),
                       kb |-> TRUE]}
    /\ report_msgs = {}
    /\ outbox = {}
    /\ last = [h |-> "init"]

NextUnpublished ==
    \/ EvApprove \/ EvAddCommentAny(Authors) \/ EvText(Authors, {<<"a">>})
    \/ EvReport(Authors, {1}) \/ EvReason(Authors, {"Other"}) \/ EvDeleteOk

SpecUnpublished == InitPending /\ [][NextUnpublished]_vars

NoReference(conf_id) ==
    \A r \in db_get_confession(conf_id) : r.channel_msg_id = 0

StalePost(conf_id) ==
    \E i \in DOMAIN channel :
        /\ channel[i].conf_id = conf_id
        /\ channel[i].count # db_count_comments(comments, conf_id)

(* C31: a comment creation (handle_message, comment stored) or a deletion  *)
(* (admin_delete_comment_cb) on a confession whose row has no              *)
(* channel_msg_id leaves the channel as it was, also when the transport    *)
(* would have accepted the edit.                                           *)
C31_NoReferenceNoEdit ==
    [][ ( /\ \/ /\ last'.h = "handle_message"
                 /\ last'.branch = "comment"
                 /\ last'.db_ok
              \/ last'.h = "admin_delete_comment_cb"
          /\ NoReference(last'.conf_id) )
        => channel' = channel ]_vars

(* a comment was deleted on a confession without channel_msg_id, the       *)
(* transport was up, and the channel holds a post of that confession       *)
(* whose counter is not the number of its comments                         *)
C31_Witness ==
    /\ last.h = "admin_delete_comment_cb"
    /\ last.tg_ok
    /\ last.store_ok
    /\ NoReference(last.conf_id)
    /\ StalePost(last.conf_id)

(***************************************************************************)
(* Claims about the totals shown to the user (SpecThread).                 *)
(***************************************************************************)
(* C36: in every store state, the total on the hub of a published          *)
(* confession ('Browse Comments (N)', sent for its deep link) is the total *)
(* the listing of that confession reports ('Total N Comments').            *)
C36_HubTotalIsListingTotal ==
    \A conf_id \in Hubs, u \in Users :
        \A h \in StartHub(u, conf_id), m \in BrowseOutput(u, comments, conf_id, 1) :
            (h.kind = "hub" /\ m.kind = "displaying_page") => h.n = m.n

(***************************************************************************)
(* Claims about the terms gate in front of a submission (Spec).            *)
(***************************************************************************)
(* C37: a user who is not in accepted_terms is never in a                  *)
(* collecting-submission mode, and every confession that is created is     *)
(* created for an author who is in accepted_terms.                         *)
C37_SubmissionOnlyAfterTerms ==
    [][ /\ \A u \in Users :
             user_state'[u].mode \in ShareModes => u \in accepted_terms'
        /\ \A r \in confessions' \ confessions : r.user_id \in accepted_terms
      ]_vars

====
